---- MODULE Spec2Model ----
(***************************************************************************)
(* Refresh Context Engine (rce): the rrweb event log and frame index       *)
(* written by the recorder, the time-travel resolver of the CLI, and the   *)
(* IPC control channel between the CLI client and the recorder.            *)
(***************************************************************************)
EXTENDS Integers, Sequences, FiniteSets, TLC

(***************************************************************************)
(* Bounds of the model.                                                    *)
(***************************************************************************)
\* number of __rrwebEmit invocations in a run
MaxEvents == 2

\* tab ids: 0 is the primary page, 1 a second tab (recorder.ts:368, 380)
Tabs == {0, 1}

\* event timestamps (epoch milliseconds) the pages may stamp on an event
TsValues == {1000, 1500}

\* rrweb EventType.Custom, the type excluded from the frame index
CustomType == 5

\* rrweb EventType.IncrementalSnapshot, standing for every non-custom type
IncrementalType == 3

EventTypes == {IncrementalType, CustomType}

\* length of the recordings the resolver is run against
MaxFrames == 4

\* timestamps of the frames of those recordings
SearchTs == {1000, 1500, 2000}

\* the targets of a --ts lookup: before, between, at and after the frames
Targets == {900, 1000, 1200, 1500, 1700, 2000, 2500}

\* largest ordinal a "ts#k" locator is tried with
MaxOrdinal == 1

\* number of lines the clients write to the control socket in a run
MaxLines == 2

\* the connections a recorder accepts
Conns == {1, 2}

\* correlation ids Math.random().toString(36).substring(7) may yield
Ids == {"a", "b"}

\* number of events of the recordings of one page (SpecTab)
MaxTabEvents == 3

\* number of lines of the byte stream of one connection (SpecStream)
MaxStreamLines == 3

\* number of sendAction and ping calls on one client
MaxRequests == 3

\* the delay of the timer of sendAction, in milliseconds
ActionTimeoutMs == 35000

\* the delay of the timer of ping, in milliseconds
PingTimeoutMs == 5000

VARIABLES
    absIndex,      \* recorder.ts:191   let absIndex = -1
    tsCounts,      \* recorder.ts:190   Map<ts, count>, a function on the keys set so far
    calls,         \* the __rrwebEmit invocations, in invocation order, with their position
    eventsLog,     \* rrweb/events.rrweb.jsonl, one record per line
    framesTxt,     \* rrweb/frames.txt, one "ts#k" key per line
    framesJsonl,   \* rrweb/frames.jsonl, the global frame index
    tabFrames,     \* rrweb/frames.tab-N.jsonl, one file per tab
    shot,          \* the last `rce shot` run: its flags and what it resolved
    messageHandler,\* ipc.ts:24   IPCServer.messageHandler is set (onMessage was called)
    wire,          \* per connection: what the client wrote and the server has not read
    sent,          \* per connection: the requests the client wrote, in order
    buffer,        \* ipc.ts:60   per connection: let buffer = ""
    runs,          \* the data handlers suspended at await this.handleMessage(msg)
    out,           \* per connection: the responses given to socket.write, in order
    actionsLog,    \* actions/actions.jsonl
    pendingRequests, \* ipc.ts:182  IPCClient.pendingRequests: id -> the request whose
                   \* resolve and reject it holds
    requests,      \* the sendAction and ping calls of the client, in call order
    socket,        \* the client's socket: "connected" or "closed"
    collided,      \* a request was registered under an id that was still pending
    action,        \* the running `rce action` command: its position and its request
    reports,       \* what the finished `rce action` commands printed, in order
    read,          \* the last readJsonLines call: the file, the definition, the result
    files,         \* the files that exist under .rce: the run's files and control.sock
    main,          \* the recorder process of the run (`rce dev`): phase, signals, cleanup
    children,      \* the browser and the dev server: whether each is alive
    stop,          \* the running cmdStop: its position, and who called it
    restart,       \* the running cmdRestart: its position and the steps it performed
    conn,          \* per connection: "open", "ended" by its client, "destroyed" by stop
    lost,          \* per connection: the responses written after the socket was closed
    dev            \* the running cmdDev of a new run: its position up to marking current

recVars == <<absIndex, tsCounts, calls, eventsLog, framesTxt, framesJsonl, tabFrames>>

srvVars == <<messageHandler, wire, sent, buffer, runs, out, actionsLog>>

cliVars == <<pendingRequests, requests, socket, collided>>

cmdVars == <<action, reports, read, dev>>

lifeVars == <<files, main, children, stop, restart>>

chanVars == <<conn, lost>>

opsVars == <<cmdVars, lifeVars, chanVars>>

coreVars == <<recVars, srvVars, cliVars, chanVars>>

vars == <<absIndex, tsCounts, calls, eventsLog, framesTxt, framesJsonl, tabFrames, shot,
          messageHandler, wire, sent, buffer, runs, out, actionsLog,
          pendingRequests, requests, socket, collided,
          action, reports, read, files, main, children, stop, restart,
          conn, lost, dev>>

(***************************************************************************)
(* Recorder: the __rrwebEmit binding (recorder.ts:267-297).                *)
(***************************************************************************)
\* the local frameEntry of an invocation that has not built one (yet)
NoEntry == [ts |-> -1, k |-> -1, i |-> -1, tabId |-> -1]

\* FrameEntry { ts, k, i, tabId }
FrameEntry(ts, k, i, tabId) == [ts |-> ts, k |-> k, i |-> i, tabId |-> tabId]

\* tsCounts.get(ts) ?? 0
TsCountsGet(m, ts) == IF ts \in DOMAIN m THEN m[ts] ELSE 0

\* tsCounts.set(ts, v)
TsCountsSet(m, ts, v) == [x \in (DOMAIN m) \cup {ts} |-> IF x = ts THEN v ELSE m[x]]

\* a test that takes no event for a custom one
IsCustomNever(evt) == FALSE

\* evt?.type === 5
IsCustom(evt) == evt.type = CustomType

\* the timestamp of the last event tab t emitted so far (0 when none)
LastTsOf(t) ==
    LET own == {c \in 1..Len(calls) : calls[c].tabId = t}
    IN  IF own = {} THEN 0
        ELSE calls[CHOOSE c \in own : \A d \in own : d <= c].evt.timestamp

SetPc(c, pc) == [calls EXCEPT ![c].pc = pc]

\* the binding is invoked for an event of tab t: absIndex += 1, then
\* writeJsonLines(eventsPath, ...) is awaited (ensureDirs, then appendFile)
Emit(t, type, ts) ==
    /\ ts >= LastTsOf(t)
    /\ absIndex' = absIndex + 1
    /\ calls' = Append(calls,
                  [tabId |-> t,
                   evt   |-> [type |-> type, timestamp |-> ts, data |-> Len(calls)],
                   pc    |-> "ev_append",
                   entry |-> NoEntry])
    /\ UNCHANGED <<tsCounts, eventsLog, framesTxt, framesJsonl, tabFrames, shot, srvVars, cliVars, opsVars>>

\* no emit callback is in progress
Quiescent == \A c \in 1..Len(calls) : calls[c].pc = "done"

\* the pages of a recording emit at most MaxEvents events
EmitStart(t, type, ts) == Len(calls) < MaxEvents /\ Emit(t, type, ts)

\* fs.appendFile(eventsPath, JSON.stringify({tabId, event}) + "\n") takes effect
EventsAppend(c) ==
    /\ calls[c].pc = "ev_append"
    /\ eventsLog' = Append(eventsLog, [tabId |-> calls[c].tabId, event |-> calls[c].evt])
    /\ calls' = SetPc(c, "ev_written")
    /\ UNCHANGED <<absIndex, tsCounts, framesTxt, framesJsonl, tabFrames, shot, srvVars, cliVars, opsVars>>

\* the frame entry the continuation builds: count and absIndex are read now
BuildEntry(c) ==
    FrameEntry(calls[c].evt.timestamp,
               TsCountsGet(tsCounts, calls[c].evt.timestamp),
               absIndex,
               calls[c].tabId)

\* the callback resumes after the await of the log write: a custom event
\* ends here, any other builds its frame entry and awaits the frames.txt append
AfterEventsWrite(c) ==
    /\ calls[c].pc = "ev_written"
    /\ IF IsCustom(calls[c].evt)
         THEN calls' = SetPc(c, "done")
         ELSE calls' = [calls EXCEPT ![c].pc = "txt_append", ![c].entry = BuildEntry(c)]
    /\ UNCHANGED <<absIndex, tsCounts, eventsLog, framesTxt, framesJsonl, tabFrames, shot, srvVars, cliVars, opsVars>>

\* fs.appendFile(framesTxtPath, key + "\n") takes effect; the callback then
\* awaits writeJsonLines(framesJsonlPath, frameEntry)
FramesTxtAppend(c) ==
    /\ calls[c].pc = "txt_append"
    /\ framesTxt' = Append(framesTxt, <<calls[c].entry.ts, calls[c].entry.k>>)
    /\ calls' = SetPc(c, "fr_append")
    /\ UNCHANGED <<absIndex, tsCounts, eventsLog, framesJsonl, tabFrames, shot, srvVars, cliVars, opsVars>>

\* the append to frames.jsonl takes effect; the callback then awaits
\* writeJsonLines(tabFramesPath, frameEntry)
FramesJsonlAppend(c) ==
    /\ calls[c].pc = "fr_append"
    /\ framesJsonl' = Append(framesJsonl, calls[c].entry)
    /\ calls' = SetPc(c, "tab_append")
    /\ UNCHANGED <<absIndex, tsCounts, eventsLog, framesTxt, tabFrames, shot, srvVars, cliVars, opsVars>>

\* the append to frames.tab-N.jsonl takes effect
TabFramesAppend(c) ==
    /\ calls[c].pc = "tab_append"
    /\ tabFrames' = [tabFrames EXCEPT ![calls[c].tabId] = Append(@, calls[c].entry)]
    /\ calls' = SetPc(c, "tab_written")
    /\ UNCHANGED <<absIndex, tsCounts, eventsLog, framesTxt, framesJsonl, shot, srvVars, cliVars, opsVars>>

\* the callback resumes after the last await: tsCounts.set(ts, count + 1)
AfterTabWrite(c) ==
    /\ calls[c].pc = "tab_written"
    /\ tsCounts' = TsCountsSet(tsCounts, calls[c].entry.ts, calls[c].entry.k + 1)
    /\ calls' = SetPc(c, "done")
    /\ UNCHANGED <<absIndex, eventsLog, framesTxt, framesJsonl, tabFrames, shot, srvVars, cliVars, opsVars>>

\* the pc of a callback whose awaited write is in flight, and the pc it is
\* left at when the write rejects: the rejection ends the callback
WriteFailure(pc) ==
    CASE pc = "ev_append" -> "ev_failed"
      [] pc \in {"txt_append", "fr_append", "tab_append"} -> "ix_failed"
      [] OTHER -> pc

\* the append the callback awaits fails (ENOSPC, EACCES, ...): nothing is
\* written, the await throws and nothing catches it
WriteFails(c) ==
    /\ WriteFailure(calls[c].pc) # calls[c].pc
    /\ calls' = SetPc(c, WriteFailure(calls[c].pc))
    /\ UNCHANGED <<absIndex, tsCounts, eventsLog, framesTxt, framesJsonl, tabFrames, shot, srvVars, cliVars, opsVars>>

(***************************************************************************)
(* Time-travel resolver: binarySearchFrameByTimestamp (fs-utils.ts:58-83)  *)
(* and `rce shot` (cmdShot).  A frame of a list is named by its position,  *)
(* 1..Len, and null by 0.                                                  *)
(***************************************************************************)
\* mutant of IsCandidate: the comparison written as <
IsCandidateStrict(frame, targetTs) == frame.ts < targetTs

\* frame.ts <= targetTs : the frame is a candidate, look to the right
IsCandidate(frame, targetTs) == frame.ts <= targetTs

\* Math.floor((left + right) / 2), on positions counted from 1
Mid(left, right) == (left + right) \div 2

RECURSIVE SearchLoopFirstHit(_, _, _, _, _)
\* mutant of SearchLoop: the loop returns the first candidate it probes
SearchLoopFirstHit(frames, targetTs, left, right, result) ==
    IF left > right THEN result
    ELSE LET mid == Mid(left, right)
         IN  IF IsCandidate(frames[mid], targetTs)
               THEN mid
               ELSE SearchLoopFirstHit(frames, targetTs, left, mid - 1, result)

RECURSIVE SearchLoop(_, _, _, _, _)
\* while (left <= right) { ... } ; return result
SearchLoop(frames, targetTs, left, right, result) ==
    IF left > right THEN result
    ELSE LET mid == Mid(left, right)
         IN  IF IsCandidate(frames[mid], targetTs)
               THEN SearchLoop(frames, targetTs, mid + 1, right, mid)
               ELSE SearchLoop(frames, targetTs, left, mid - 1, result)

\* mutant of BinarySearchFrameByTimestamp: a target equal to the first ts
\* is taken to precede the first frame
BinarySearchOffByOne(frames, targetTs) ==
    IF Len(frames) = 0 THEN 0
    ELSE IF targetTs <= frames[1].ts THEN 0
    ELSE IF targetTs >= frames[Len(frames)].ts THEN Len(frames)
    ELSE SearchLoop(frames, targetTs, 1, Len(frames), 0)

\* the position of the frame binarySearchFrameByTimestamp returns, 0 for null
BinarySearchFrameByTimestamp(frames, targetTs) ==
    IF Len(frames) = 0 THEN 0
    ELSE IF targetTs < frames[1].ts THEN 0
    ELSE IF targetTs >= frames[Len(frames)].ts THEN Len(frames)
    ELSE SearchLoop(frames, targetTs, 1, Len(frames), 0)

(***************************************************************************)
(* Locator strings, as sequences of characters.                            *)
(***************************************************************************)
DigitChars == <<"0", "1", "2", "3", "4", "5", "6", "7", "8", "9">>

DigitChar(d) == DigitChars[d + 1]

IsDigit(ch) == \E d \in 0..9 : DigitChars[d + 1] = ch

DigitVal(ch) == CHOOSE d \in 0..9 : DigitChars[d + 1] = ch

RECURSIVE NumToStr(_)
\* String(n) of a non-negative integer, as in the template `${ts}#${count}`
NumToStr(n) ==
    IF n < 10 THEN <<DigitChar(n)>>
    ELSE NumToStr(n \div 10) \o <<DigitChar(n % 10)>>

\* the value Number(str) that stands for NaN: it equals no ts and no k
NaN == -2

RECURSIVE DigitsVal(_, _)
DigitsVal(str, acc) ==
    IF str = << >> THEN acc
    ELSE DigitsVal(Tail(str), 10 * acc + DigitVal(Head(str)))

\* Number(str): 0 for the empty string, the decimal value of a digit
\* string, NaN otherwise
ToNumber(str) ==
    IF \A n \in 1..Len(str) : IsDigit(str[n]) THEN DigitsVal(str, 0) ELSE NaN

RECURSIVE SplitOn(_, _, _)
\* str.split(sep): cur is the part being collected
SplitOn(str, sep, cur) ==
    IF str = << >> THEN <<cur>>
    ELSE IF Head(str) = sep THEN <<cur>> \o SplitOn(Tail(str), sep, << >>)
    ELSE SplitOn(Tail(str), sep, Append(cur, Head(str)))

\* at.includes(ch)
Includes(str, ch) == \E n \in 1..Len(str) : str[n] = ch

\* at.startsWith(ch)
StartsWith(str, ch) == Len(str) > 0 /\ str[1] = ch

\* a + b of two numbers, NaN when either is NaN
AddNum(a, b) == IF a = NaN \/ b = NaN THEN NaN ELSE a + b

\* the ISO-8601 text of the instant T milliseconds after the epoch, written
\* here as the digits of T followed by the zone designator
IsoString(T) == Append(NumToStr(T), "Z")

\* Date.parse(str): the instant an ISO-8601 text names, NaN for other text
DateParse(str) ==
    IF Len(str) > 1 /\ str[Len(str)] = "Z"
         /\ \A n \in 1..(Len(str) - 1) : IsDigit(str[n])
      THEN DigitsVal(SubSeq(str, 1, Len(str) - 1), 0)
      ELSE NaN

\* the locator "+milliseconds"
OffsetString(ms) == <<"+">> \o NumToStr(ms)

\* the key `${ts}#${k}` that frames.txt and `rce frames` print for an entry
FrameKey(ts, k) == NumToStr(ts) \o <<"#">> \o NumToStr(k)

(***************************************************************************)
(* cmdShot: resolve the flags to a target index and an event subset.       *)
(***************************************************************************)
\* flags.tab === undefined, and a frame or result without a tab
NoTab == -1

\* eventsLines.filter(e => e.tabId === tabId)
FilterTab(lines, tabId) == SelectSeq(lines, LAMBDA e : e.tabId = tabId)

\* ... .map(e => e.event)
EventsOf(lines) == [n \in 1..Len(lines) |-> lines[n].event]

\* tabId !== undefined ? lines.filter(by tab) : lines
Filtered(lines, tabId) == IF tabId # NoTab THEN FilterTab(lines, tabId) ELSE lines

\* the position of the first entry with the given ts and k, 0 when none:
\* filteredFrames.find(f => f.ts === ts && f.k === k)
FindTsK(frames, ts, k) ==
    LET hits == {n \in 1..Len(frames) : frames[n].ts = ts /\ frames[n].k = k}
    IN  IF hits = {} THEN 0 ELSE CHOOSE n \in hits : \A m \in hits : n <= m

\* the position of the first entry with the given i, 0 when none:
\* frames.find(f => f.i === targetIndex)
FindIndex(frames, i) ==
    LET hits == {n \in 1..Len(frames) : frames[n].i = i}
    IN  IF hits = {} THEN 0 ELSE CHOOSE n \in hits : \A m \in hits : n <= m

\* events.slice(0, targetIndex + 1) of replayAndScreenshot
Slice(events, targetIndex) ==
    SubSeq(events, 1, IF targetIndex + 1 > Len(events) THEN Len(events)
                      ELSE targetIndex + 1)

\* the command ended with process.exit(1)
ShotError(msg) ==
    [ok |-> FALSE, error |-> msg, targetIndex |-> -1, pos |-> 0, tabId |-> NoTab,
     subset |-> << >>]

\* the branch resolved targetIndex (pos: the position of the matched frame
\* in the filtered frame list, 0 in index mode) and, possibly, a tab
Resolved(targetIndex, pos, autoTab) ==
    [ok |-> TRUE, error |-> "", targetIndex |-> targetIndex, pos |-> pos,
     tabId |-> autoTab, subset |-> << >>]

\* --index N : pass through, auto-detecting the tab from the global index
ResolveIndex(flags, frames) ==
    LET p == IF flags.tab = NoTab THEN FindIndex(frames, flags.index) ELSE 0
    IN  Resolved(flags.index, 0, IF p # 0 THEN frames[p].tabId ELSE NoTab)

\* --ts T : binary search over the (tab-filtered) frame index
ResolveTs(flags, frames) ==
    LET filteredFrames == Filtered(frames, flags.tab)
        p == BinarySearchFrameByTimestamp(filteredFrames, flags.ts)
    IN  IF p = 0 THEN ShotError("No frame found at or before timestamp")
        ELSE Resolved(filteredFrames[p].i, p, filteredFrames[p].tabId)

\* --at "ts#k" : exact match against the (tab-filtered) frame index
ResolveAtKey(flags, frames) ==
    LET filteredFrames == Filtered(frames, flags.tab)
        parts == SplitOn(flags.at, "#", << >>)
        p == FindTsK(filteredFrames, ToNumber(parts[1]), ToNumber(parts[2]))
    IN  IF p = 0 THEN ShotError("Frame not found")
        ELSE Resolved(filteredFrames[p].i, p, NoTab)

\* the positions of filteredFrames.filter(f => f.ts <= targetTs)
Candidates(frames, targetTs) == {n \in 1..Len(frames) : frames[n].ts <= targetTs}

\* the linear filter of the "+ms" and ISO branches: the last listed entry
\* among the candidates
ResolveLinear(filteredFrames, targetTs) ==
    LET candidates == Candidates(filteredFrames, targetTs)
        p == CHOOSE n \in candidates : \A m \in candidates : m <= n
    IN  IF candidates = {} THEN ShotError("No frame at or before that time")
        ELSE Resolved(filteredFrames[p].i, p, NoTab)

\* --at "+ms" : offset from the timestamp of the first event
ResolveAtOffset(flags, frames, firstTs) ==
    ResolveLinear(Filtered(frames, flags.tab), AddNum(firstTs, ToNumber(Tail(flags.at))))

\* --at "<ISO>" : wall-clock time
ResolveAtIso(flags, frames) ==
    ResolveLinear(Filtered(frames, flags.tab), DateParse(flags.at))

\* the branches of cmdShot on its flags
ResolveFlags(flags, frames, firstTs) ==
    IF flags.mode = "index" THEN ResolveIndex(flags, frames)
    ELSE IF flags.mode = "ts" THEN ResolveTs(flags, frames)
    ELSE IF flags.mode = "at" THEN
        IF Includes(flags.at, "#") THEN ResolveAtKey(flags, frames)
        ELSE IF StartsWith(flags.at, "+") THEN ResolveAtOffset(flags, frames, firstTs)
        ELSE ResolveAtIso(flags, frames)
    ELSE ShotError("Usage")

\* cmdShot from the reading of the log to the call of replayAndScreenshot
CmdShotResult(flags, eventsLines, frames) ==
    LET events == EventsOf(Filtered(eventsLines, flags.tab))
        firstTs == IF Len(events) = 0 THEN NaN ELSE events[1].timestamp
        r == ResolveFlags(flags, frames, firstTs)
        finalTabId == IF flags.tab # NoTab THEN flags.tab ELSE r.tabId
        finalEvents == IF finalTabId # NoTab /\ finalTabId # flags.tab
                         THEN EventsOf(FilterTab(eventsLines, finalTabId))
                         ELSE events
    IN  IF Len(events) = 0 THEN ShotError("No events found")
        ELSE IF ~r.ok THEN r
        ELSE IF Len(finalEvents) = 0 THEN ShotError("No events found for tab")
        ELSE [r EXCEPT !.tabId = finalTabId, !.subset = Slice(finalEvents, r.targetIndex)]

NoFlags == [mode |-> "none", index |-> -1, ts |-> -1, at |-> << >>, tab |-> NoTab]

NoShot == [flags |-> NoFlags, nFrames |-> 0, res |-> ShotError("")]

\* `rce shot` runs against the files as they are now; nFrames is the
\* number of lines of frames.jsonl it read
CmdShot(flags) ==
    /\ shot' = [flags   |-> flags,
                nFrames |-> Len(framesJsonl),
                res     |-> CmdShotResult(flags, eventsLog, framesJsonl)]
    /\ UNCHANGED <<recVars, srvVars, cliVars, opsVars>>

(***************************************************************************)
(* Control channel, server side: IPCServer (ipc.ts:20-177) and the message *)
(* handler startRecorder registers (recorder.ts:408-442).                  *)
(*                                                                         *)
(* A byte stream is a sequence of characters [ch, n]: "nl" is the newline, *)
(* "sp" white space, "junk" text that is no JSON, and "head", "tail" the   *)
(* two halves of JSON.stringify(msg) for the n-th line the client of the   *)
(* connection wrote.                                                       *)
(***************************************************************************)
Nl == [ch |-> "nl", n |-> 0]

\* IPCMessage { id, type, tool?, args? } and the two lines that are none
PingMsg(id) == [id |-> id, type |-> "ping", tool |-> "", hasArgs |-> FALSE]

ActionMsg(id) == [id |-> id, type |-> "action", tool |-> "browser_click", hasArgs |-> TRUE]

\* an action request without a tool
BadActionMsg(id) == [id |-> id, type |-> "action", tool |-> "", hasArgs |-> TRUE]

JunkLine == [id |-> "", type |-> "junk", tool |-> "", hasArgs |-> FALSE]

BlankLine == [id |-> "", type |-> "blank", tool |-> "", hasArgs |-> FALSE]

Requests == {PingMsg(id) : id \in Ids} \cup {ActionMsg(id) : id \in Ids}
                \cup {BadActionMsg(id) : id \in Ids}

\* the characters of the n-th line a client writes, without the newline
Encode(line, n) ==
    IF line.type = "junk" THEN <<[ch |-> "junk", n |-> n]>>
    ELSE IF line.type = "blank" THEN <<[ch |-> "sp", n |-> n]>>
    ELSE <<[ch |-> "head", n |-> n], [ch |-> "tail", n |-> n]>>

\* a test that also passes over text that is no JSON
IsBlankOrJunk(line) == \A j \in 1..Len(line) : line[j].ch \in {"sp", "junk"}

\* !line.trim()
IsBlank(line) == \A j \in 1..Len(line) : line[j].ch = "sp"

\* JSON.parse(line): the number of the request the line encodes, 0 when
\* JSON.parse throws
ParseLine(line) ==
    IF /\ Len(line) = 2
       /\ line[1].ch = "head"
       /\ line[2].ch = "tail"
       /\ line[1].n = line[2].n
    THEN line[1].n ELSE 0

\* const lines = buffer.split("\n") ; buffer = lines.pop() || ""
CompleteLines(buf) ==
    LET parts == SplitOn(buf, Nl, << >>) IN SubSeq(parts, 1, Len(parts) - 1)

RestOfBuffer(buf) ==
    LET parts == SplitOn(buf, Nl, << >>) IN parts[Len(parts)]

\* an IPCResponse { id, ok, error? }; req names the line it answers (0: none)
Response(id, ok, error, req) == [id |-> id, ok |-> ok, error |-> error, req |-> req]

\* handleMessage: { id: msg.id, ok: true, result: "pong" }
PingResponse(msg, n) == Response(msg.id, TRUE, "", n)

\* a reply for the missing handler that carries the sentinel id
NoHandlerUnknownId(msg, n) == Response("unknown", FALSE, "No message handler registered", n)

\* handleMessage: { id: msg.id, ok: false, error: "No message handler registered" }
NoHandlerResponse(msg, n) == Response(msg.id, FALSE, "No message handler registered", n)

\* mutant of InvalidFormatResponse: the handler answers with the sentinel id
InvalidFormatUnknownId(msg, n) == Response("unknown", FALSE, "Invalid message format", n)

\* the handler: { id: msg.id, ok: false, error: "Invalid message format" }
InvalidFormatResponse(msg, n) == Response(msg.id, FALSE, "Invalid message format", n)

\* the handler: { id: msg.id, ok: actionResult.ok, ... }, and in its catch
\* { id: msg.id, ok: false, error: error.message }
ActionResponse(msg, n, ok) == Response(msg.id, ok, IF ok THEN "" ELSE "action failed", n)

\* the catch of the data handler: { id: "unknown", ok: false, error }
ParseErrorResponse == Response("unknown", FALSE, "parse error", 0)

\* msg.type === "action" && msg.tool && msg.args !== undefined
IsValidAction(msg) == msg.type = "action" /\ msg.tool # "" /\ msg.hasArgs

\* the for loop of the data handler has no line left
LoopDone(o) == [out |-> o, susp |-> FALSE, n |-> 0, rest |-> << >>]

RECURSIVE ProcessLines(_, _, _)
\* for (const line of lines) { ... } of the data handler of connection c,
\* up to the first await that waits for a browser action, or to its end;
\* o is what the connection was given to write so far
ProcessLines(c, lines, o) ==
    IF lines = << >> THEN LoopDone(o)
    ELSE LET line == Head(lines)
             n == ParseLine(line)
             msg == sent[c][n]
         IN  IF IsBlank(line) THEN ProcessLines(c, Tail(lines), o)
             ELSE IF n = 0
               THEN ProcessLines(c, Tail(lines), Append(o, ParseErrorResponse))
             ELSE IF msg.type = "ping"
               THEN ProcessLines(c, Tail(lines), Append(o, PingResponse(msg, n)))
             ELSE IF ~messageHandler
               THEN ProcessLines(c, Tail(lines), Append(o, NoHandlerResponse(msg, n)))
             ELSE IF IsValidAction(msg)
               THEN [out |-> o, susp |-> TRUE, n |-> n, rest |-> Tail(lines)]
             ELSE ProcessLines(c, Tail(lines), Append(o, InvalidFormatResponse(msg, n)))

\* the data handler that stopped at the await of request n of connection c
Run(c, n, rest, pc, ok) == [conn |-> c, n |-> n, rest |-> rest, pc |-> pc, ok |-> ok]

\* the runs after the loop of a data handler went as far as r
Suspend(rs, c, r) ==
    IF r.susp THEN rs \cup {Run(c, r.n, r.rest, "executing", FALSE)} ELSE rs

LinesWritten == Len(sent[1]) + Len(sent[2])

\* ipcServer.onMessage(handler) of startRecorder
RegisterHandler ==
    /\ ~messageHandler
    /\ messageHandler' = TRUE
    /\ UNCHANGED <<wire, sent, buffer, runs, out, actionsLog>>
    /\ UNCHANGED <<recVars, shot, cliVars, opsVars>>

\* a client writes a line to the socket: JSON.stringify(msg) + "\n", or
\* text that is no JSON, or white space
Write(c, line) ==
    /\ conn[c] = "open"
    /\ sent' = [sent EXCEPT ![c] = Append(@, line)]
    /\ wire' = [wire EXCEPT ![c] = @ \o Encode(line, Len(sent[c]) + 1) \o <<Nl>>]
    /\ UNCHANGED <<messageHandler, buffer, runs, out, actionsLog>>
    /\ UNCHANGED <<recVars, shot, cliVars, opsVars>>

\* the clients of a recorder write at most MaxLines lines
ClientWrite(c, line) == LinesWritten < MaxLines /\ Write(c, line)

\* a data handler that leaves its chunk in the buffer while a handler of
\* another connection awaits an action
DataBlockedByOthers(c, k) ==
    LET all == buffer[c] \o SubSeq(wire[c], 1, k)
        blocked == \E run \in runs : run.conn # c
        r == ProcessLines(c, CompleteLines(all), out[c])
    IN  /\ wire' = [wire EXCEPT ![c] = SubSeq(@, k + 1, Len(@))]
        /\ buffer' = [buffer EXCEPT ![c] = IF blocked THEN all ELSE RestOfBuffer(all)]
        /\ out' = [out EXCEPT ![c] = IF blocked THEN @ ELSE r.out]
        /\ runs' = IF blocked THEN runs ELSE Suspend(runs, c, r)
        /\ UNCHANGED <<messageHandler, sent, actionsLog>>
        /\ UNCHANGED <<recVars, shot, cliVars, opsVars>>

\* socket.on("data"): the first k characters in flight arrive as one chunk
Data(c, k) ==
    LET all == buffer[c] \o SubSeq(wire[c], 1, k)
        r == ProcessLines(c, CompleteLines(all), out[c])
    IN  /\ wire' = [wire EXCEPT ![c] = SubSeq(@, k + 1, Len(@))]
        /\ buffer' = [buffer EXCEPT ![c] = RestOfBuffer(all)]
        /\ out' = [out EXCEPT ![c] = r.out]
        /\ runs' = Suspend(runs, c, r)
        /\ UNCHANGED <<messageHandler, sent, actionsLog>>
        /\ UNCHANGED <<recVars, shot, cliVars, opsVars>>

\* executeAction(primaryPage, msg.tool, msg.args, startedAt) returns its
\* ActionResult; the handler awaits writeJsonLines(actionsPath, actionResult)
ActionExecuted(run, ok) ==
    /\ run.pc = "executing"
    /\ runs' = (runs \ {run}) \cup {Run(run.conn, run.n, run.rest, "logging", ok)}
    /\ UNCHANGED <<messageHandler, wire, sent, buffer, out, actionsLog>>
    /\ UNCHANGED <<recVars, shot, cliVars, opsVars>>

\* the write of actions.jsonl ends (logged) or throws; the handler returns
\* its response, the data handler writes it and goes on with its loop
ActionLogged(run, logged) ==
    LET c == run.conn
        resp == ActionResponse(sent[c][run.n], run.n, run.ok /\ logged)
        r == ProcessLines(c, run.rest, Append(out[c], resp))
    IN  /\ run.pc = "logging"
        /\ actionsLog' = IF logged
                           THEN Append(actionsLog, [conn |-> c, n |-> run.n, ok |-> run.ok])
                           ELSE actionsLog
        /\ IF conn[c] = "open"
             THEN out' = [out EXCEPT ![c] = r.out] /\ UNCHANGED lost
             ELSE lost' = [lost EXCEPT ![c] = @ \o SubSeq(r.out, Len(out[c]) + 1, Len(r.out))]
                  /\ UNCHANGED out
        /\ runs' = Suspend(runs \ {run}, c, r)
        /\ UNCHANGED <<messageHandler, wire, sent, buffer, conn>>
        /\ UNCHANGED <<recVars, shot, cliVars, cmdVars, lifeVars>>

\* a run that is dropped with its connection
ClientEndCancels(c) ==
    /\ conn[c] = "open"
    /\ wire[c] = << >>
    /\ conn' = [conn EXCEPT ![c] = "ended"]
    /\ runs' = {run \in runs : run.conn # c}
    /\ UNCHANGED <<messageHandler, wire, sent, buffer, out, actionsLog, lost>>
    /\ UNCHANGED <<recVars, shot, cliVars, cmdVars, lifeVars>>

\* the client of the connection gives up (its timer fired, it disconnects or
\* exits) after all it wrote has arrived: socket.on("end") deletes the
\* socket from this.clients, the data handlers of the connection go on
ClientEnd(c) ==
    /\ conn[c] = "open"
    /\ wire[c] = << >>
    /\ conn' = [conn EXCEPT ![c] = "ended"]
    /\ UNCHANGED <<messageHandler, wire, sent, buffer, runs, out, actionsLog, lost>>
    /\ UNCHANGED <<recVars, shot, cliVars, cmdVars, lifeVars>>

\* IPCServer.stop(): client.destroy() for every socket of this.clients;
\* what was in flight to the server is discarded
ServerStop ==
    /\ \E c \in Conns : conn[c] = "open"
    /\ conn' = [c \in Conns |-> IF conn[c] = "open" THEN "destroyed" ELSE conn[c]]
    /\ wire' = [c \in Conns |-> IF conn[c] = "open" THEN << >> ELSE wire[c]]
    /\ UNCHANGED <<messageHandler, sent, buffer, runs, out, actionsLog, lost>>
    /\ UNCHANGED <<recVars, shot, cliVars, cmdVars, lifeVars>>

InitServer ==
    /\ messageHandler = FALSE
    /\ wire = [c \in Conns |-> << >>]
    /\ sent = [c \in Conns |-> << >>]
    /\ buffer = [c \in Conns |-> << >>]
    /\ runs = {}
    /\ out = [c \in Conns |-> << >>]
    /\ actionsLog = << >>
    /\ conn = [c \in Conns |-> "open"]
    /\ lost = [c \in Conns |-> << >>]

NextServer ==
    \/ RegisterHandler
    \/ \E c \in Conns, line \in Requests \cup {JunkLine, BlankLine} : ClientWrite(c, line)
    \/ \E c \in Conns : \E k \in 1..Len(wire[c]) : Data(c, k)
    \/ \E run \in runs, ok \in BOOLEAN : ActionExecuted(run, ok)
    \/ \E run \in runs, logged \in BOOLEAN : ActionLogged(run, logged)

(***************************************************************************)
(* Control channel, client side: IPCClient (ipc.ts:179-306).               *)
(***************************************************************************)
\* the delay of the timer a request starts
TimeoutOf(kind) == IF kind = "ping" THEN PingTimeoutMs ELSE ActionTimeoutMs

\* pendingRequests.set(id, { resolve, reject }) for request r
MapSet(m, id, r) == [x \in (DOMAIN m) \cup {id} |-> IF x = id THEN r ELSE m[x]]

\* pendingRequests.delete(id)
MapDelete(m, id) == [x \in (DOMAIN m) \ {id} |-> m[x]]

\* resolve or reject of the promise of request r is called: the first call
\* settles the promise, a later one changes nothing
Settle(rs, r, state, by) ==
    [rs EXCEPT ![r].state = IF @ = "pending" THEN state ELSE @,
               ![r].by = IF rs[r].state = "pending" THEN by ELSE @,
               ![r].settleCalls = @ + 1]

\* sendAction(tool, args) and ping(): the id is drawn, the entry is set, the
\* message is written and the timer is started
Send(kind, id) ==
    /\ socket = "connected"
    /\ Len(requests) < MaxRequests
    /\ requests' = Append(requests,
                     [id |-> id, kind |-> kind, state |-> "pending", by |-> "none",
                      timer |-> "armed", answered |-> FALSE, settleCalls |-> 0,
                      cause |-> 0, arrival |-> 0])
    /\ pendingRequests' = MapSet(pendingRequests, id, Len(requests) + 1)
    /\ collided' = (collided \/ id \in DOMAIN pendingRequests)
    /\ UNCHANGED socket
    /\ UNCHANGED <<recVars, shot, srvVars, opsVars>>

\* a lookup that ignores the id: the oldest entry of the map
LookupOldest(m, id) ==
    IF DOMAIN m = {} THEN 0
    ELSE CHOOSE r \in {m[x] : x \in DOMAIN m} : \A x \in DOMAIN m : r <= m[x]

\* the entry a response with this id finds: pendingRequests.get(response.id)
Lookup(m, id) == IF id \in DOMAIN m THEN m[id] ELSE 0

\* the number of response lines that arrived
Arrived == Cardinality({q \in 1..Len(requests) : requests[q].answered})

\* socket.on("data"): the response line to request r arrives; the entry
\* found under its id, if any, is deleted and resolved.  arrival is the
\* rank of the line among the responses, cause the request whose response
\* settled a promise
ResponseArrives(r) ==
    LET id == requests[r].id
        p == Lookup(pendingRequests, id)
        marked == [requests EXCEPT ![r].answered = TRUE, ![r].arrival = Arrived + 1]
    IN  /\ socket = "connected"
        /\ ~requests[r].answered
        /\ IF p # 0
             THEN /\ pendingRequests' = MapDelete(pendingRequests, id)
                  /\ requests' = [Settle(marked, p, "resolved", "response") EXCEPT
                                    ![p].cause = IF requests[p].state = "pending" THEN r ELSE @]
             ELSE /\ pendingRequests' = pendingRequests
                  /\ requests' = marked
        /\ UNCHANGED <<socket, collided>>
        /\ UNCHANGED <<recVars, shot, srvVars, opsVars>>

\* timers of equal or shorter delay that were started earlier expire first
TimerDue(r) ==
    /\ requests[r].timer = "armed"
    /\ \A q \in 1..(r - 1) :
         requests[q].timer = "armed" => TimeoutOf(requests[q].kind) > TimeoutOf(requests[r].kind)

\* the setTimeout callback of request r: if (pendingRequests.has(id)) {
\* pendingRequests.delete(id); reject(...) } with the reject of request r
TimerExpires(r) ==
    LET id == requests[r].id
        fired == [requests EXCEPT ![r].timer = "fired"]
    IN  /\ TimerDue(r)
        /\ IF id \in DOMAIN pendingRequests
             THEN /\ pendingRequests' = MapDelete(pendingRequests, id)
                  /\ requests' = Settle(fired, r, "rejected", "timeout")
             ELSE /\ pendingRequests' = pendingRequests
                  /\ requests' = fired
        /\ UNCHANGED <<socket, collided>>
        /\ UNCHANGED <<recVars, shot, srvVars, opsVars>>

\* the requests that hold an entry of the map
Registered(m) == {m[id] : id \in DOMAIN m}

\* socket.on("close"): every entry is rejected and deleted
SocketClose ==
    /\ socket = "connected"
    /\ socket' = "closed"
    /\ requests' = [r \in 1..Len(requests) |->
                      IF r \in Registered(pendingRequests)
                        THEN Settle(requests, r, "rejected", "close")[r]
                        ELSE requests[r]]
    /\ pendingRequests' = << >>
    /\ UNCHANGED collided
    /\ UNCHANGED <<recVars, shot, srvVars, opsVars>>

InitClient ==
    /\ pendingRequests = << >>
    /\ requests = << >>
    /\ socket = "connected"
    /\ collided = FALSE

NextClient ==
    \/ \E kind \in {"action", "ping"}, id \in Ids : Send(kind, id)
    \/ \E r \in 1..Len(requests) : ResponseArrives(r)
    \/ \E r \in 1..Len(requests) : TimerExpires(r)
    \/ SocketClose

(***************************************************************************)
(* cmdAction: the `rce action <tool>` command (part_004:553-633) and the   *)
(* errors IPCClient gives it (ipc.ts:189-274).                             *)
(***************************************************************************)
\* number of `rce action` commands run one after the other
MaxCommands == 2

\* positionals[0]: absent, or the name of a tool
Tools == {"", "click"}

\* what the connect attempt finds at .rce/control.sock: no file, a socket
\* file nobody listens on, a file the user may not open, a listening server
Endpoints == {"absent", "stale", "forbidden", "listening"}

\* err.code of the error the socket emits on connecting, "" when it connects
ConnectCode(endpoint) ==
    CASE endpoint = "absent" -> "ENOENT"
      [] endpoint = "stale" -> "ECONNREFUSED"
      [] endpoint = "forbidden" -> "EACCES"
      [] OTHER -> ""

\* the error connect() rejects with: the socket's own error, code and all
ConnectError(endpoint) == [code |-> ConnectCode(endpoint), message |-> "connect"]

\* the error the timer of sendAction rejects with: it has no code
TimeoutError == [code |-> "", message |-> "Request timeout after 35s"]

\* the error the close handler rejects with: it has no code
ClosedError == [code |-> "", message |-> "Connection closed"]

\* what ends the connection under a pending request: the peer's end, or a
\* socket error whose reject(err) finds the connect promise settled
CloseCauses == {"end", "ECONNRESET"}

IsNotRunningOnlyAbsent(error) == error.code = "ENOENT"

\* error.code === "ENOENT" || error.code === "ECONNREFUSED"
IsNotRunning(error) == error.code = "ENOENT" \/ error.code = "ECONNREFUSED"

\* the inner catch: what it prints for the error
CatchInner(error) ==
    IF IsNotRunning(error) THEN "Recorder not running" ELSE "Error connecting to recorder"

\* what a finished command printed and how it exited; cause and endpoint
\* tell what happened to it
Report(tool, cause, endpoint, printed, exit) ==
    [tool |-> tool, cause |-> cause, endpoint |-> endpoint, printed |-> printed, exit |-> exit]

NoAction == [pc |-> "idle", tool |-> "", json |-> FALSE]

\* the command runs up to its connect attempt
ActionStart(tool, json, argsOk) ==
    /\ action.pc = "idle"
    /\ Len(reports) < MaxCommands
    /\ IF "current" \notin files
         THEN /\ reports' = Append(reports,
                     Report(tool, "readlink", "none", "Error executing action", 1))
              /\ UNCHANGED action
       ELSE IF tool = ""
         THEN /\ reports' = Append(reports, Report(tool, "usage", "none", "Usage", 1))
              /\ UNCHANGED action
       ELSE IF ~argsOk
         THEN /\ reports' = Append(reports,
                     Report(tool, "args", "none", "Error executing action", 1))
              /\ UNCHANGED action
       ELSE /\ action' = [pc |-> "connecting", tool |-> tool, json |-> json]
            /\ UNCHANGED reports
    /\ UNCHANGED <<coreVars, shot, read, dev, lifeVars>>

\* client.connect() settles; connected, the command sends its request
ActionConnect(endpoint) ==
    /\ action.pc = "connecting"
    /\ IF ConnectCode(endpoint) = ""
         THEN /\ action' = [action EXCEPT !.pc = "waiting"]
              /\ UNCHANGED reports
         ELSE /\ reports' = Append(reports,
                     Report(action.tool, "connect", endpoint,
                            CatchInner(ConnectError(endpoint)), 1))
              /\ action' = NoAction
    /\ UNCHANGED <<coreVars, shot, read, dev, lifeVars>>

\* the response arrives: the command prints it, disconnects and exits
ActionResponded(ok) ==
    /\ action.pc = "waiting"
    /\ reports' = Append(reports,
           IF action.json THEN Report(action.tool, "response", "listening", "response", 0)
           ELSE IF ok THEN Report(action.tool, "response", "listening",
                                  "Action executed successfully", 0)
           ELSE Report(action.tool, "response", "listening", "Action failed", 1))
    /\ action' = NoAction
    /\ UNCHANGED <<coreVars, shot, read, dev, lifeVars>>

\* the 35 s timer of sendAction fires first
ActionTimedOut ==
    /\ action.pc = "waiting"
    /\ reports' = Append(reports,
           Report(action.tool, "timeout", "listening", CatchInner(TimeoutError), 1))
    /\ action' = NoAction
    /\ UNCHANGED <<coreVars, shot, read, dev, lifeVars>>

\* the connection closes under the pending request
ActionClosed(cause) ==
    /\ action.pc = "waiting"
    /\ reports' = Append(reports,
           Report(action.tool, cause, "listening", CatchInner(ClosedError), 1))
    /\ action' = NoAction
    /\ UNCHANGED <<coreVars, shot, read, dev, lifeVars>>

NextAction ==
    \/ \E tool \in Tools, json \in BOOLEAN, argsOk \in BOOLEAN : ActionStart(tool, json, argsOk)
    \/ \E endpoint \in Endpoints : ActionConnect(endpoint)
    \/ \E ok \in BOOLEAN : ActionResponded(ok)
    \/ ActionTimedOut
    \/ \E cause \in CloseCauses : ActionClosed(cause)

(***************************************************************************)
(* readJsonLines: the two definitions of fs-utils.ts (21-38 and 107-110).  *)
(*                                                                         *)
(* A file is a text over digits, "{" and the newline.  A line of digits is *)
(* a JSON document (a number); a line with "{" is what a write cut short   *)
(* leaves behind, and JSON.parse throws on it.                             *)
(***************************************************************************)
\* length of the files read
MaxFileLen == 4

FileChars == {"1", "2", "{", "\n"}

Texts == UNION {[1..n -> FileChars] : n \in 0..MaxFileLen}

\* the file at a path: it may not exist
LogFiles == {[exists |-> FALSE, text |-> << >>]} \cup {[exists |-> TRUE, text |-> t] : t \in Texts}

\* await fs.readFile(file, "utf8").catch(() => "")
ReadFile(file) == IF file.exists THEN file.text ELSE << >>

\* txt.split(/\r?\n/).filter(Boolean)
Lines(txt) == SelectSeq(SplitOn(txt, "\n", << >>), LAMBDA l : l # << >>)

\* JSON.parse(line) of a non-empty line: its value, or that it throws
JsonParse(line) ==
    IF \A n \in 1..Len(line) : IsDigit(line[n])
      THEN [ok |-> TRUE, value |-> DigitsVal(line, 0)]
      ELSE [ok |-> FALSE, value |-> NaN]

\* the values of the lines
ParsedValues(lines) == [n \in 1..Len(lines) |-> JsonParse(lines[n]).value]

\* fs-utils.ts:21-38: a line that does not parse is skipped with a warning
ReadJsonLines(file) ==
    LET lines == Lines(ReadFile(file))
    IN  [failed  |-> FALSE,
         records |-> ParsedValues(SelectSeq(lines, LAMBDA l : JsonParse(l).ok))]

\* fs-utils.ts:107-110: lines.map(l => JSON.parse(l)), the first line that
\* does not parse rejects the call
ReadJsonLinesMap(file) ==
    LET lines == Lines(ReadFile(file))
    IN  IF \E n \in 1..Len(lines) : ~JsonParse(lines[n]).ok
          THEN [failed |-> TRUE, records |-> << >>]
          ELSE [failed |-> FALSE, records |-> ParsedValues(lines)]

NoRead == [def |-> 0, file |-> [exists |-> FALSE, text |-> << >>],
           result |-> [failed |-> FALSE, records |-> << >>]]

\* a reader calls the definition at line 21
ReadFirst(file) ==
    /\ read = NoRead
    /\ read' = [def |-> 1, file |-> file, result |-> ReadJsonLines(file)]
    /\ UNCHANGED <<coreVars, shot, action, reports, dev, lifeVars>>

\* a reader calls the definition at line 107
ReadSecond(file) ==
    /\ read = NoRead
    /\ read' = [def |-> 2, file |-> file, result |-> ReadJsonLinesMap(file)]
    /\ UNCHANGED <<coreVars, shot, action, reports, dev, lifeVars>>

\* the module exports the name twice: which definition a reader gets is
\* the build's choice
NextRead ==
    \/ \E file \in LogFiles : ReadFirst(file)
    \/ \E file \in LogFiles : ReadSecond(file)

\* no `rce dev` for a new run was started; current names the previous run
NoDev == [pc |-> "idle", found |-> FALSE, attempts |-> 0, current |-> "previous"]

InitCmd ==
    /\ action = NoAction
    /\ reports = << >>
    /\ read = NoRead
    /\ dev = NoDev

(***************************************************************************)
(* Lifecycle: the cleanup handler of cmdDev (part_004:184-218), the exit   *)
(* handler and the IPC server of startRecorder (recorder.ts:173-186,       *)
(* ipc.ts:148-172), cmdStop (part_004:237-280) and cmdRestart (282-286).   *)
(*                                                                         *)
(* main is the process `rce dev` runs in; cmdStop and cmdRestart run in a  *)
(* process of their own.  The run is configured with a dev server.         *)
(***************************************************************************)
\* number of SIGINT and SIGTERM signals the user sends to the recorder
MaxSignals == 2

Signals == {"SIGINT", "SIGTERM"}

\* the run directory's pid files, in the order cmdStop visits them
StopTargets == <<"main", "browser", "server">>

PidFile(target) ==
    CASE target = "main" -> "main.pid"
      [] target = "browser" -> "browser.pid"
      [] OTHER -> "server.pid"

PidFiles == {PidFile(StopTargets[n]) : n \in 1..Len(StopTargets)}

\* the event log and the frame indexes of the run
DataFiles == {"events.rrweb.jsonl", "frames.txt", "frames.jsonl", "frames.tab.jsonl"}

\* .rce/control.sock
ControlSock == "control.sock"

\* .rce/current
CurrentSym == "current"

NoProcess ==
    [state |-> "none", listening |-> FALSE, pending |-> << >>, isCleaningUp |-> FALSE,
     pc |-> "none", userSignals |-> 0, handled |-> 0, bodyRuns |-> 0, ipcStops |-> 0,
     browserCloses |-> 0, serverKills |-> 0, exits |-> 0]

\* the process has not exited and was not killed
Alive(m) == m.state \in {"starting", "ipc", "running"}

\* unlinkSync(socketPath) of the exit handler, once startRecorder registered it
ExitHandler(state, fs) == IF state \in {"ipc", "running"} THEN fs \ {ControlSock} ELSE fs

\* process.exit(0)
Exit(m) ==
    [m EXCEPT !.state = "exited", !.listening = FALSE, !.pending = << >>,
              !.pc = "none", !.exits = @ + 1]

\* SIGKILL: the process is gone, none of its handlers ran
Kill(m) ==
    [m EXCEPT !.state = "killed", !.listening = FALSE, !.pending = << >>, !.pc = "none"]

ReentrantNever(m) == FALSE

\* if (isCleaningUp) return
Reentrant(m) == m.isCleaningUp

RmRunDir(fs, f) == fs \ ({f} \cup DataFiles)

\* await fs.rm(pidPath, { force: true })
Rm(fs, f) == fs \ {f}

\* startRecorder launches the browser, registers the exit handler and
\* starts the IPC server
StartIpc ==
    /\ main.state = "starting"
    /\ main' = [main EXCEPT !.state = "ipc", !.listening = TRUE]
    /\ files' = files \cup {ControlSock}
    /\ children' = [children EXCEPT !.browser = TRUE]
    /\ UNCHANGED <<coreVars, shot, cmdVars, stop, restart>>

\* startRecorder writes browser.pid and returns: recorder is assigned
RecorderStarted ==
    /\ main.state = "ipc"
    /\ main' = [main EXCEPT !.state = "running"]
    /\ files' = files \cup {"browser.pid"}
    /\ UNCHANGED <<coreVars, shot, cmdVars, children, stop, restart>>

\* the user sends a signal to the recorder (Ctrl+C, kill)
UserSignal(sig) ==
    /\ Alive(main)
    /\ main.userSignals < MaxSignals
    /\ main' = [main EXCEPT !.pending = Append(@, sig), !.userSignals = @ + 1]
    /\ UNCHANGED <<coreVars, shot, cmdVars, files, children, stop, restart>>

\* the event loop runs cleanup for the oldest signal, up to its first await
HandleSignal ==
    /\ Alive(main)
    /\ main.pending # << >>
    /\ LET m == [main EXCEPT !.pending = Tail(@), !.handled = @ + 1]
           body == [m EXCEPT !.isCleaningUp = TRUE, !.bodyRuns = @ + 1]
       IN  IF Reentrant(main)
             THEN /\ main' = m
                  /\ UNCHANGED <<files, children>>
           ELSE IF main.state = "running"
             THEN /\ main' = [body EXCEPT !.pc = "stopFn", !.ipcStops = @ + 1]
                  /\ UNCHANGED <<files, children>>
           ELSE /\ main' = Exit([body EXCEPT !.serverKills = @ + 1])
                /\ children' = [children EXCEPT !.server = FALSE]
                /\ files' = ExitHandler(main.state, files)
    /\ UNCHANGED <<coreVars, shot, cmdVars, stop, restart>>

\* IPCServer.stop: the clients are destroyed and the server has closed
IpcServerClosed ==
    /\ Alive(main)
    /\ main.pc = "stopFn"
    /\ main' = [main EXCEPT !.listening = FALSE, !.pc = "unlink"]
    /\ UNCHANGED <<coreVars, shot, cmdVars, files, children, stop, restart>>

\* IPCServer.stop: fs.unlink(socketPath) is done, stopFn returns
SocketUnlinked ==
    /\ Alive(main)
    /\ main.pc = "unlink"
    /\ files' = files \ {ControlSock}
    /\ main' = [main EXCEPT !.pc = "browser"]
    /\ UNCHANGED <<coreVars, shot, cmdVars, children, stop, restart>>

\* browser.close() is done; cleanup kills the dev server and exits
BrowserClosed ==
    /\ Alive(main)
    /\ main.pc = "browser"
    /\ main' = Exit([main EXCEPT !.browserCloses = @ + 1, !.serverKills = @ + 1])
    /\ children' = [browser |-> FALSE, server |-> FALSE]
    /\ files' = ExitHandler(main.state, files)
    /\ UNCHANGED <<coreVars, shot, cmdVars, stop, restart>>

NoStop == [pc |-> "idle", target |-> 0, by |-> "none"]

NoRestart == [pc |-> "idle", steps |-> << >>]

\* cmdStop reads the current symlink; without it the catch calls process.exit(1)
StopBegin(by) ==
    IF CurrentSym \in files
      THEN [pc |-> "check", target |-> 1, by |-> by]
      ELSE [pc |-> "failed", target |-> 0, by |-> by]

\* cmdStop goes on to the next pid file, or prints "Stopped" and returns
Advance(s) ==
    IF s.target < Len(StopTargets)
      THEN [s EXCEPT !.pc = "check", !.target = @ + 1]
      ELSE [s EXCEPT !.pc = "returned"]

\* `rce stop`
CmdStop ==
    /\ stop.pc = "idle"
    /\ stop' = StopBegin("stop")
    /\ UNCHANGED <<coreVars, shot, cmdVars, files, main, children, restart>>

\* `rce restart`: await cmdStop().catch(() => {})
CmdRestart ==
    /\ stop.pc = "idle"
    /\ restart.pc = "idle"
    /\ stop' = StopBegin("restart")
    /\ restart' = [pc    |-> IF StopBegin("restart").pc = "failed" THEN "exited" ELSE "stopping",
                   steps |-> <<"stop">>]
    /\ UNCHANGED <<coreVars, shot, cmdVars, files, main, children>>

\* cmdStop finds the pid file and sends SIGTERM to the process it names
StopSignal ==
    /\ stop.pc = "check"
    /\ LET target == StopTargets[stop.target]
       IN  IF PidFile(target) \notin files
             THEN /\ stop' = Advance(stop)
                  /\ UNCHANGED <<main, children>>
           ELSE IF target = "main"
             THEN /\ stop' = [stop EXCEPT !.pc = "wait"]
                  /\ main' = IF Alive(main)
                               THEN [main EXCEPT !.pending = Append(@, "SIGTERM")]
                               ELSE main
                  /\ UNCHANGED children
           ELSE /\ stop' = [stop EXCEPT !.pc = "wait"]
                /\ \E dies \in BOOLEAN :
                       children' = [children EXCEPT ![target] = @ /\ ~dies]
                /\ UNCHANGED main
    /\ UNCHANGED <<coreVars, shot, cmdVars, files, restart>>

\* 100 ms later cmdStop sends SIGKILL
StopForce ==
    /\ stop.pc = "wait"
    /\ LET target == StopTargets[stop.target]
       IN  IF target = "main"
             THEN /\ main' = IF Alive(main) THEN Kill(main) ELSE main
                  /\ UNCHANGED children
             ELSE /\ children' = [children EXCEPT ![target] = FALSE]
                  /\ UNCHANGED main
    /\ stop' = [stop EXCEPT !.pc = "rm"]
    /\ UNCHANGED <<coreVars, shot, cmdVars, files, restart>>

\* cmdStop removes the pid file
StopRemove ==
    /\ stop.pc = "rm"
    /\ files' = Rm(files, PidFile(StopTargets[stop.target]))
    /\ stop' = Advance(stop)
    /\ UNCHANGED <<coreVars, shot, cmdVars, main, children, restart>>

\* cmdRestart: cmdStop returned, the 1000 ms settle timer is started
RestartSettle ==
    /\ restart.pc = "stopping"
    /\ stop.by = "restart"
    /\ stop.pc = "returned"
    /\ restart' = [pc |-> "settle", steps |-> Append(restart.steps, "wait")]
    /\ UNCHANGED <<coreVars, shot, cmdVars, files, main, children, stop>>

\* cmdRestart: the timer fired, cmdDev(flags) is entered
RestartDev ==
    /\ restart.pc = "settle"
    /\ restart' = [pc |-> "dev", steps |-> Append(restart.steps, "start")]
    /\ UNCHANGED <<coreVars, shot, cmdVars, files, main, children, stop>>

\* cmdDev has written main.pid and server.pid, pointed current at the run
\* and registered cleanup; startRecorder has not begun
InitLife ==
    /\ files = {CurrentSym, "main.pid", "server.pid"}
    /\ main = [NoProcess EXCEPT !.state = "starting"]
    /\ children = [browser |-> FALSE, server |-> TRUE]
    /\ stop = NoStop
    /\ restart = NoRestart

(***************************************************************************)
(* cmdDev of a new run, up to the point where it marks the run current     *)
(* (part_004:65-159).                                                      *)
(***************************************************************************)
\* const maxAttempts = 10
MaxAttempts == 10

StopNotAwaited(by) == stop.by = by

\* await cmdStop() has returned
StopReturned(by) == stop.by = by /\ stop.pc = "returned"

\* fileExists(CURRENT_SYM): with a current marker cmdDev calls cmdStop
DevBegin ==
    /\ dev.pc = "idle"
    /\ stop.pc = "idle"
    /\ IF CurrentSym \in files
         THEN /\ dev' = [dev EXCEPT !.pc = "stopping", !.found = TRUE]
              /\ stop' = StopBegin("dev")
         ELSE /\ dev' = [dev EXCEPT !.pc = "create"]
              /\ UNCHANGED stop
    /\ UNCHANGED <<coreVars, shot, action, reports, read, files, main, children, restart>>

\* cmdStop returned: cmdDev enters the loop that waits for the port
DevStopped ==
    /\ dev.pc = "stopping"
    /\ StopReturned("dev")
    /\ dev' = [dev EXCEPT !.pc = "port"]
    /\ UNCHANGED <<coreVars, shot, action, reports, read, lifeVars>>

\* one round of the loop: the test server listens, or fails with EADDRINUSE
\* and the loop sleeps 500 ms; after maxAttempts rounds cmdDev goes on anyway
DevPortTried(inUse) ==
    /\ dev.pc = "port"
    /\ dev' = IF inUse /\ dev.attempts + 1 < MaxAttempts
                THEN [dev EXCEPT !.attempts = @ + 1]
                ELSE [dev EXCEPT !.pc = "create",
                                 !.attempts = IF inUse THEN @ + 1 ELSE @]
    /\ UNCHANGED <<coreVars, shot, action, reports, read, lifeVars>>

\* the directories of the new run, its meta file and its main.pid are written
DevCreate ==
    /\ dev.pc = "create"
    /\ dev' = [dev EXCEPT !.pc = "created"]
    /\ UNCHANGED <<coreVars, shot, action, reports, read, lifeVars>>

\* symlinkForce(runDir, CURRENT_SYM)
DevMark ==
    /\ dev.pc = "created"
    /\ dev' = [dev EXCEPT !.pc = "marked", !.current = "new"]
    /\ files' = files \cup {CurrentSym}
    /\ UNCHANGED <<coreVars, shot, action, reports, read, main, children, stop, restart>>

NextDev ==
    \/ StartIpc
    \/ RecorderStarted
    \/ \E sig \in Signals : UserSignal(sig)
    \/ HandleSignal
    \/ IpcServerClosed
    \/ SocketUnlinked
    \/ BrowserClosed
    \/ StopSignal
    \/ StopForce
    \/ StopRemove
    \/ DevBegin
    \/ DevStopped
    \/ \E inUse \in BOOLEAN : DevPortTried(inUse)
    \/ DevCreate
    \/ DevMark

NextLife ==
    \/ StartIpc
    \/ RecorderStarted
    \/ \E sig \in Signals : UserSignal(sig)
    \/ HandleSignal
    \/ IpcServerClosed
    \/ SocketUnlinked
    \/ BrowserClosed
    \/ CmdStop
    \/ CmdRestart
    \/ StopSignal
    \/ StopForce
    \/ StopRemove
    \/ RestartSettle
    \/ RestartDev

InitRec ==
    /\ absIndex = -1
    /\ tsCounts = << >>
    /\ calls = << >>
    /\ eventsLog = << >>
    /\ framesTxt = << >>
    /\ framesJsonl = << >>
    /\ tabFrames = [t \in Tabs |-> << >>]

Init == InitRec /\ shot = NoShot /\ InitServer /\ InitClient /\ InitCmd /\ InitLife

Next ==
    \/ \E t \in Tabs, type \in EventTypes, ts \in TsValues : EmitStart(t, type, ts)
    \/ \E c \in 1..Len(calls) : EventsAppend(c)
    \/ \E c \in 1..Len(calls) : AfterEventsWrite(c)
    \/ \E c \in 1..Len(calls) : FramesTxtAppend(c)
    \/ \E c \in 1..Len(calls) : FramesJsonlAppend(c)
    \/ \E c \in 1..Len(calls) : TabFramesAppend(c)
    \/ \E c \in 1..Len(calls) : AfterTabWrite(c)

Spec == Init /\ [][Next]_vars

(***************************************************************************)
(* SpecShot: `rce shot --at "ts#k"` runs while the recorder records.       *)
(***************************************************************************)
\* the "ts#k" locators tried, with and without --tab
AtKeyFlags ==
    {[mode |-> "at", index |-> -1, ts |-> -1, at |-> FrameKey(ts, k), tab |-> tab] :
        ts \in TsValues, k \in 0..MaxOrdinal, tab \in {NoTab} \cup Tabs}

NextShot ==
    \/ Next
    \/ \E flags \in AtKeyFlags : CmdShot(flags)

SpecShot == Init /\ [][NextShot]_vars

(***************************************************************************)
(* SpecFail: the recorder records on a disk whose appends may fail.        *)
(***************************************************************************)
NextFail ==
    \/ Next
    \/ \E c \in 1..Len(calls) : WriteFails(c)

SpecFail == Init /\ [][NextFail]_vars

(***************************************************************************)
(* SpecSearch: the resolver runs against the files a finished recording    *)
(* left on disk.  The recording is any sequence of at most MaxFrames       *)
(* non-custom events whose callbacks ran one after the other, each tab     *)
(* stamping non-decreasing timestamps.                                     *)
(***************************************************************************)
\* the events of a recording: who emitted, and the timestamp
Emissions ==
    UNION {[1..n -> [tabId : Tabs, ts : SearchTs]] : n \in 0..MaxFrames}

\* each tab stamps non-decreasing timestamps
TabMonotonic(em) ==
    \A m, n \in 1..Len(em) : (m < n /\ em[m].tabId = em[n].tabId) => em[m].ts <= em[n].ts

\* the n-th line of events.rrweb.jsonl after the callbacks ran in turn
LogOf(em) ==
    [n \in 1..Len(em) |->
        [tabId |-> em[n].tabId,
         event |-> [type |-> IncrementalType, timestamp |-> em[n].ts, data |-> n - 1]]]

\* the n-th line of frames.jsonl after the callbacks ran in turn:
\* k counts the earlier events of the same ts, i is absIndex
FramesOf(em) ==
    [n \in 1..Len(em) |->
        FrameEntry(em[n].ts,
                   Cardinality({m \in 1..(n - 1) : em[m].ts = em[n].ts}),
                   n - 1,
                   em[n].tabId)]

InitSearch ==
    /\ InitServer
    /\ InitClient
    /\ InitCmd
    /\ InitLife
    /\ absIndex = -1
    /\ tsCounts = << >>
    /\ calls = << >>
    /\ shot = NoShot
    /\ \E em \in Emissions :
        /\ TabMonotonic(em)
        /\ eventsLog = LogOf(em)
        /\ framesJsonl = FramesOf(em)
        /\ framesTxt = [n \in 1..Len(em) |-> <<FramesOf(em)[n].ts, FramesOf(em)[n].k>>]
        /\ tabFrames = [t \in Tabs |-> FilterTab(FramesOf(em), t)]

\* the --ts lookups tried, with and without --tab
TsFlags ==
    {[mode |-> "ts", index |-> -1, ts |-> T, at |-> << >>, tab |-> tab] :
        T \in Targets, tab \in {NoTab} \cup Tabs}

\* the --index lookups tried: within the log, at its length and beyond
IndexFlags ==
    {[mode |-> "index", index |-> N, ts |-> -1, at |-> << >>, tab |-> tab] :
        N \in 0..(MaxFrames + 1), tab \in {NoTab} \cup Tabs}

\* the offsets of the "+ms" locators tried
Offsets == {0, 200, 500, 1000}

\* the --at "+ms" lookups tried, with and without --tab
AtOffsetFlags ==
    {[mode |-> "at", index |-> -1, ts |-> -1, at |-> OffsetString(ms), tab |-> tab] :
        ms \in Offsets, tab \in {NoTab} \cup Tabs}

\* the --at "<ISO>" lookups tried, with and without --tab
AtIsoFlags ==
    {[mode |-> "at", index |-> -1, ts |-> -1, at |-> IsoString(T), tab |-> tab] :
        T \in Targets, tab \in {NoTab} \cup Tabs}

\* the command is run once against the recording: a run changes no file,
\* so a second run would start from the same files
NextSearch ==
    \/ shot = NoShot /\ \E flags \in TsFlags : CmdShot(flags)
    \/ shot = NoShot /\ \E flags \in IndexFlags : CmdShot(flags)
    \/ shot = NoShot /\ \E flags \in AtOffsetFlags : CmdShot(flags)
    \/ shot = NoShot /\ \E flags \in AtIsoFlags : CmdShot(flags)

SpecSearch == InitSearch /\ [][NextSearch]_vars

(***************************************************************************)
(* SpecTab: the primary page emits at most MaxTabEvents non-custom events, *)
(* its callbacks overlapping freely, and `rce shot --ts T --tab 0` is run  *)
(* once when the callbacks have returned.                                  *)
(***************************************************************************)
\* setupPageRecording(primaryPage, 0)
PrimaryTab == 0

NextTab ==
    \/ \E ts \in TsValues :
         Len(calls) < MaxTabEvents /\ Emit(PrimaryTab, IncrementalType, ts)
    \/ \E c \in 1..Len(calls) : EventsAppend(c)
    \/ \E c \in 1..Len(calls) : AfterEventsWrite(c)
    \/ \E c \in 1..Len(calls) : FramesTxtAppend(c)
    \/ \E c \in 1..Len(calls) : FramesJsonlAppend(c)
    \/ \E c \in 1..Len(calls) : TabFramesAppend(c)
    \/ \E c \in 1..Len(calls) : AfterTabWrite(c)
    \/ shot = NoShot /\ Quiescent
         /\ \E flags \in TsFlags : flags.tab = PrimaryTab /\ CmdShot(flags)

SpecTab == Init /\ [][NextTab]_vars

(***************************************************************************)
(* SpecServer: the control channel of a running recorder and its clients.  *)
(***************************************************************************)
SpecServer == Init /\ [][NextServer]_vars

(***************************************************************************)
(* SpecChannel: the server while clients give up and while it is stopped.  *)
(***************************************************************************)
NextChannel ==
    \/ NextServer
    \/ \E c \in Conns : ClientEnd(c)
    \/ ServerStop

SpecChannel == Init /\ [][NextChannel]_vars

(***************************************************************************)
(* SpecStream: one connection whose client writes at most MaxStreamLines   *)
(* lines; the stream reaches the server split into chunks in every way.    *)
(***************************************************************************)
\* the connection of the stream
StreamConn == CHOOSE c \in Conns : \A d \in Conns : c <= d

NextStream ==
    \/ RegisterHandler
    \/ \E line \in Requests \cup {JunkLine, BlankLine} :
         Len(sent[StreamConn]) < MaxStreamLines /\ Write(StreamConn, line)
    \/ \E k \in 1..Len(wire[StreamConn]) : Data(StreamConn, k)
    \/ \E run \in runs, ok \in BOOLEAN : ActionExecuted(run, ok)
    \/ \E run \in runs, logged \in BOOLEAN : ActionLogged(run, logged)

SpecStream == Init /\ [][NextStream]_vars

(***************************************************************************)
(* SpecClient: one connected IPCClient, the replies of its server, its     *)
(* timers and the close of its socket.                                     *)
(***************************************************************************)
SpecClient == Init /\ [][NextClient]_vars

(***************************************************************************)
(* SpecAction: `rce action` commands run one after the other.              *)
(***************************************************************************)
SpecAction == Init /\ [][NextAction]_vars

(***************************************************************************)
(* SpecRead: one readJsonLines call on a file.                             *)
(***************************************************************************)
SpecRead == Init /\ [][NextRead]_vars

(***************************************************************************)
(* SpecLife: signals, `rce stop` and `rce restart` against a project with  *)
(* no run, a run that is starting, or a run that has recorded two frames.  *)
(***************************************************************************)
\* the events the recording run has written
Recorded == <<[tabId |-> 0, ts |-> 1000], [tabId |-> 0, ts |-> 1500]>>

Sessions == {"none", "starting", "recording"}

InitLifecycle ==
    /\ InitServer
    /\ InitClient
    /\ InitCmd
    /\ absIndex = -1
    /\ tsCounts = << >>
    /\ calls = << >>
    /\ shot = NoShot
    /\ stop = NoStop
    /\ restart = NoRestart
    /\ \E session \in Sessions :
        LET em == IF session = "recording" THEN Recorded ELSE << >>
        IN  /\ eventsLog = LogOf(em)
            /\ framesJsonl = FramesOf(em)
            /\ framesTxt = [n \in 1..Len(em) |-> <<FramesOf(em)[n].ts, FramesOf(em)[n].k>>]
            /\ tabFrames = [t \in Tabs |-> FilterTab(FramesOf(em), t)]
            /\ files = CASE session = "none" -> {}
                         [] session = "starting" -> {CurrentSym, "main.pid", "server.pid"}
                         [] OTHER -> {CurrentSym, ControlSock} \cup PidFiles \cup DataFiles
            /\ main = CASE session = "none" -> NoProcess
                        [] session = "starting" -> [NoProcess EXCEPT !.state = "starting"]
                        [] OTHER -> [NoProcess EXCEPT !.state = "running", !.listening = TRUE]
            /\ children = [browser |-> session = "recording", server |-> session # "none"]

SpecLife == InitLifecycle /\ [][NextLife]_vars

(***************************************************************************)
(* SpecDev: `rce dev` is run against the same three projects.              *)
(***************************************************************************)
SpecDev == InitLifecycle /\ [][NextDev]_vars

(***************************************************************************)
(* Properties of the recorder (Spec, SpecShot).                            *)
(***************************************************************************)
\* C1: the i values of the frame entries of frames.jsonl, in write order,
\* are gapless over the non-custom events: the n-th entry has i = n - 1,
\* so a custom event consumes no index.
C1_GaplessOverFrames ==
    \A n \in 1..Len(framesJsonl) : framesJsonl[n].i = n - 1

\* C5: when callbacks overlap, every frame entry still carries the absolute
\* index assigned to its own event (the value of absIndex right after the
\* increment of its own invocation), and no two entries of frames.jsonl
\* share the same i.
C5_OwnIndexKept ==
    /\ \A c \in 1..Len(calls) : calls[c].entry # NoEntry => calls[c].entry.i = c - 1
    /\ \A m, n \in 1..Len(framesJsonl) : m # n => framesJsonl[m].i # framesJsonl[n].i

\* C6: at no time do two frame entries of frames.jsonl share the same
\* (ts, k) pair.
C6_DistinctOrdinals ==
    \A m, n \in 1..Len(framesJsonl) :
        m # n => <<framesJsonl[m].ts, framesJsonl[m].k>> # <<framesJsonl[n].ts, framesJsonl[n].k>>

\* C7: the records of events.rrweb.jsonl are in the order in which the emit
\* callbacks were invoked: of two lines, the earlier one belongs to the
\* callback that started first.
C7_LogInCallOrder ==
    \A m, n \in 1..Len(eventsLog) :
        m < n => eventsLog[m].event.data < eventsLog[n].event.data

\* the calls for events that are not custom and whose callback is at one
\* of the given positions
FrameCallsAt(pcs) ==
    {c \in 1..Len(calls) : calls[c].evt.type # CustomType /\ calls[c].pc \in pcs}

\* C23: a custom event (type 5) is appended to events.rrweb.jsonl like any
\* other event, but the callback of a custom event ends after that write:
\* frames.jsonl, the per-tab index and frames.txt hold exactly one entry per
\* non-custom callback that reached the write, and the ordinal count of a
\* timestamp never exceeds the number of finished non-custom callbacks for
\* that timestamp.
C23_CustomNotIndexed ==
    /\ \A c \in 1..Len(calls) :
         calls[c].evt.type = CustomType =>
            /\ calls[c].pc \in {"ev_append", "ev_written", "done"}
            /\ calls[c].entry = NoEntry
            /\ calls[c].pc # "ev_append" =>
                 \E n \in 1..Len(eventsLog) :
                     eventsLog[n] = [tabId |-> calls[c].tabId, event |-> calls[c].evt]
    /\ Len(framesTxt) = Cardinality(FrameCallsAt({"fr_append", "tab_append", "tab_written", "done"}))
    /\ Len(framesJsonl) = Cardinality(FrameCallsAt({"tab_append", "tab_written", "done"}))
    /\ \A t \in Tabs :
         Len(tabFrames[t]) =
            Cardinality({c \in FrameCallsAt({"tab_written", "done"}) : calls[c].tabId = t})
    /\ \A ts \in TsValues :
         TsCountsGet(tsCounts, ts) <=
            Cardinality({c \in FrameCallsAt({"done"}) : calls[c].evt.timestamp = ts})

\* a custom event and another event went through their callbacks: two
\* lines in the log, one entry in each index, one ordinal counted
C23_Witness ==
    /\ Len(calls) = 2
    /\ Quiescent
    /\ calls[1].evt.type = CustomType
    /\ calls[2].evt.type # CustomType
    /\ Len(eventsLog) = 2
    /\ Len(framesJsonl) = 1
    /\ Len(framesTxt) = 1
    /\ TsCountsGet(tsCounts, calls[2].evt.timestamp) = 1

\* C30: the index never leads the log: every entry of frames.jsonl and of
\* the per-tab index files has an i whose record is already in
\* events.rrweb.jsonl, i < number of its lines, in every state the
\* recording can be interrupted in.
C30_IndexNeverLeads ==
    /\ \A n \in 1..Len(framesJsonl) : framesJsonl[n].i < Len(eventsLog)
    /\ \A t \in Tabs : \A n \in 1..Len(tabFrames[t]) : tabFrames[t][n].i < Len(eventsLog)

\* the entries (by position) of the frames.jsonl lines a shot read that
\* its "ts#k" locator names, within its --tab filter
NamedByShot ==
    {n \in 1..shot.nFrames :
        /\ FrameKey(framesJsonl[n].ts, framesJsonl[n].k) = shot.flags.at
        /\ shot.flags.tab \in {NoTab, framesJsonl[n].tabId}}

\* C10: locator round trip: `rce shot --at "ts#k"` with the key of an entry
\* (ts, k, i) of the frame index resolves to target index i, and a key that
\* names no entry is an error.
C10_LocatorRoundTrip ==
    shot.flags.mode = "at" =>
        /\ \A n \in NamedByShot : shot.res.ok /\ shot.res.targetIndex = framesJsonl[n].i
        /\ NamedByShot = {} => ~shot.res.ok

\* the entry re-derived for line n of the raw log: i is the line position,
\* k the number of earlier non-custom lines with the same timestamp
DerivedAt(lines, n) ==
    FrameEntry(lines[n].event.timestamp,
               Cardinality({m \in 1..(n - 1) :
                   /\ ~IsCustom(lines[m].event)
                   /\ lines[m].event.timestamp = lines[n].event.timestamp}),
               n - 1,
               lines[n].tabId)

\* the frame index re-derived from the raw log alone: its lines in file
\* order, custom events skipped
Rederive(lines) ==
    LET kept == SelectSeq([n \in 1..Len(lines) |-> n], LAMBDA n : ~IsCustom(lines[n].event))
    IN  [j \in 1..Len(kept) |-> DerivedAt(lines, kept[j])]

\* a is an initial part of b
IsPrefixOf(a, b) == Len(a) <= Len(b) /\ \A n \in 1..Len(a) : a[n] = b[n]

\* C14: round trip of the index: the live-built frames.jsonl is, entry for
\* entry, the index re-derived from events.rrweb.jsonl, except that a
\* trailing part of the log may have no entries yet; it is the whole
\* re-derived index once no callback is in progress.
C14_RederivedIsLive ==
    /\ IsPrefixOf(framesJsonl, Rederive(eventsLog))
    /\ Quiescent => framesJsonl = Rederive(eventsLog)

(***************************************************************************)
(* Properties of the timestamp lookup (SpecSearch).                        *)
(***************************************************************************)
\* the frame list the last --ts lookup searched
Searched == Filtered(framesJsonl, shot.flags.tab)

\* the list is sorted by ts
SortedByTs(frames) ==
    \A m, n \in 1..Len(frames) : m < n => frames[m].ts <= frames[n].ts

\* C2: round-down: on a non-empty list sorted by ts and a target T not
\* smaller than the first ts, the lookup returns an entry f with f.ts <= T
\* and no entry of the list has its ts in (f.ts, T].
C2_RoundDown ==
    (/\ shot.flags.mode = "ts"
     /\ Len(Searched) > 0
     /\ SortedByTs(Searched)
     /\ shot.flags.ts >= Searched[1].ts)
    => /\ shot.res.ok
       /\ shot.res.pos \in 1..Len(Searched)
       /\ Searched[shot.res.pos].ts <= shot.flags.ts
       /\ shot.res.targetIndex = Searched[shot.res.pos].i
       /\ \A n \in 1..Len(Searched) :
            ~(Searched[n].ts > Searched[shot.res.pos].ts /\ Searched[n].ts <= shot.flags.ts)

\* the lookup ran its loop on at least three frames: the target lies at or
\* after the first ts and before the last
C2_Witness ==
    /\ shot.flags.mode = "ts"
    /\ Len(Searched) >= 3
    /\ SortedByTs(Searched)
    /\ shot.flags.ts >= Searched[1].ts
    /\ shot.flags.ts < Searched[Len(Searched)].ts
    /\ shot.res.ok
    /\ shot.res.pos = 2

\* the positions of the entries with the largest ts that is <= T
Boundary(frames, T) ==
    {n \in 1..Len(frames) :
        /\ frames[n].ts <= T
        /\ \A m \in 1..Len(frames) : frames[m].ts <= T => frames[m].ts <= frames[n].ts}

\* C8: when several entries of a ts-sorted list share the largest ts that
\* is <= T, the lookup returns the one at the highest list position (the
\* last written, with the highest k), for T inside the range of the list
\* and for T at or beyond the last ts.
C8_TieLastWritten ==
    (/\ shot.flags.mode = "ts"
     /\ SortedByTs(Searched)
     /\ Boundary(Searched, shot.flags.ts) # {})
    => /\ shot.res.ok
       /\ shot.res.pos \in Boundary(Searched, shot.flags.ts)
       /\ \A n \in Boundary(Searched, shot.flags.ts) :
            /\ n <= shot.res.pos
            /\ Searched[n].k <= Searched[shot.res.pos].k

\* the scenario of the specification: entries (1000,k0), (1000,k1),
\* (1500,k0) of one tab, target 1200 resolves to the second entry
C8_Witness ==
    /\ shot.flags.mode = "ts"
    /\ shot.flags.ts = 1200
    /\ Len(Searched) = 3
    /\ <<Searched[1].ts, Searched[1].k>> = <<1000, 0>>
    /\ <<Searched[2].ts, Searched[2].k>> = <<1000, 1>>
    /\ <<Searched[3].ts, Searched[3].k>> = <<1500, 0>>
    /\ shot.res.ok
    /\ shot.res.pos = 2

C11_IndexBeyondLogIsError ==
    shot.flags.mode = "index" =>
        /\ shot.flags.index < Len(eventsLog)
             => (shot.res.ok => shot.res.targetIndex = shot.flags.index)
        /\ shot.flags.index >= Len(eventsLog)
             => (~shot.res.ok /\ shot.res.subset = << >>)

\* the target timestamp of the last --at lookup: the first event of the
\* (tab-filtered) log plus the offset, or the parsed wall-clock time
AtTarget ==
    LET events == EventsOf(Filtered(eventsLog, shot.flags.tab))
    IN  IF StartsWith(shot.flags.at, "+")
          THEN AddNum(IF Len(events) = 0 THEN NaN ELSE events[1].timestamp,
                      ToNumber(Tail(shot.flags.at)))
          ELSE DateParse(shot.flags.at)

\* what `rce shot --ts T` yields on the same files for the target of the
\* last --at lookup
ViaTs ==
    CmdShotResult([mode |-> "ts", index |-> -1, ts |-> AtTarget, at |-> << >>,
                   tab |-> shot.flags.tab],
                  eventsLog, framesJsonl)

\* C12: a --at "+ms" or --at "<ISO>" lookup resolves to the same frame
\* index as the binary-search lookup --ts for the target timestamp
\* firstEventTimestamp + offset (respectively the parsed time), and the two
\* agree on not finding a frame.
C12_AtSameAsTs ==
    (shot.flags.mode = "at" /\ ~Includes(shot.flags.at, "#")) =>
        /\ shot.res.ok = ViaTs.ok
        /\ shot.res.targetIndex = ViaTs.targetIndex

\* what `rce shot --ts T` with the --tab of the last lookup yields on the
\* lines of frames.jsonl that lookup read
OtherTs(T) ==
    CmdShotResult([mode |-> "ts", index |-> -1, ts |-> T, at |-> << >>,
                   tab |-> shot.flags.tab],
                  eventsLog, SubSeq(framesJsonl, 1, shot.nFrames))

\* C13: monotonicity of resolution over the frame index of one tab: when
\* targets t1 < t2 both resolve, to frames f1 and f2, then f1.i <= f2.i.
C13_Monotonic ==
    (shot.flags.mode = "ts" /\ shot.flags.tab # NoTab /\ shot.res.ok) =>
        \A t1 \in Targets :
            (t1 < shot.flags.ts /\ OtherTs(t1).ok)
                => OtherTs(t1).targetIndex <= shot.res.targetIndex

(***************************************************************************)
(* Properties of the control channel (SpecServer, SpecClient).             *)
(***************************************************************************)
\* C15: a response resolves the promise of the request that carries its id
\* and no other: a promise resolved by a response was resolved by a
\* response with the id of its request, and, when no other request of the
\* connection carried that id, by the response to its own request,
\* whatever the order in which the responses arrived.
C15_ResolvesOwnCaller ==
    \A r \in 1..Len(requests) :
        requests[r].by = "response" =>
            /\ requests[r].cause \in 1..Len(requests)
            /\ requests[requests[r].cause].id = requests[r].id
            /\ (\A q \in 1..Len(requests) : q # r => requests[q].id # requests[r].id)
                 => requests[r].cause = r

\* two requests with distinct ids were pending together, the response to
\* the second arrived first, and each was resolved by its own response
C15_Witness ==
    /\ Len(requests) >= 2
    /\ requests[1].id # requests[2].id
    /\ requests[2].arrival = 1
    /\ requests[1].arrival = 2
    /\ requests[1].by = "response" /\ requests[1].cause = 1
    /\ requests[2].by = "response" /\ requests[2].cause = 2
    /\ requests[1].timer = "armed" /\ requests[2].timer = "armed"

\* the timer of request r expires in this step
TimerStep(r) ==
    /\ r \in 1..Len(requests)
    /\ requests[r].timer = "armed"
    /\ requests'[r].timer = "fired"

\* the response line to request r arrives in this step
ResponseStep(r) ==
    /\ r \in 1..Len(requests)
    /\ ~requests[r].answered
    /\ requests'[r].answered

\* the promises and the map are as before
ClientUntouched(r) ==
    /\ pendingRequests' = pendingRequests
    /\ \A q \in 1..Len(requests) :
         /\ requests'[q].state = requests[q].state
         /\ requests'[q].by = requests[q].by

\* C16: a timer that expires while its request is still pending removes
\* exactly the entry of its request, rejects its promise with the timeout
\* error and leaves the other entries and promises as they are; a
\* response arriving later for that id changes no entry and settles no
\* promise; a timer that expires after its request was resolved has no
\* effect.  Stated for clients on which no id was registered while it was
\* still in the map.
C16_TimerRemovesOwnEntryOnly ==
    [][~collided =>
        \A r \in 1..MaxRequests :
            /\ (TimerStep(r) /\ requests[r].state = "pending") =>
                  /\ requests'[r].state = "rejected"
                  /\ requests'[r].by = "timeout"
                  /\ pendingRequests' = MapDelete(pendingRequests, requests[r].id)
                  /\ \A q \in 1..Len(requests) :
                       q # r => requests'[q].state = requests[q].state
            /\ (TimerStep(r) /\ requests[r].state # "pending") => ClientUntouched(r)
            /\ (ResponseStep(r) /\ requests[r].by = "timeout") => ClientUntouched(r)
      ]_vars

\* C17: when the socket closes, every request still pending is rejected
\* with the connection-closed error, the map is empty afterwards, and the
\* requests already resolved or timed out are as before.  Stated for
\* clients on which no id was registered while it was still in the map.
C17_CloseRejectsAllPending ==
    [][(~collided /\ socket = "connected" /\ socket' = "closed") =>
        /\ pendingRequests' = << >>
        /\ \A r \in 1..Len(requests) :
             IF requests[r].state = "pending"
               THEN requests'[r].state = "rejected" /\ requests'[r].by = "close"
               ELSE requests'[r] = requests[r]
      ]_vars

\* the positions in out[c] of the responses that answer line n
AnswersTo(c, n) == {j \in 1..Len(out[c]) : out[c][j].req = n}

\* characters of line n are still on the way or held in the buffer
Incomplete(c, n) ==
    \/ \E j \in 1..Len(wire[c]) : wire[c][j].n = n
    \/ \E j \in 1..Len(buffer[c]) : buffer[c][j].n = n

\* a data handler of the connection has line n ahead in its loop
Ahead(c, n) ==
    \E run \in runs : run.conn = c /\ \E j \in 1..Len(run.rest) : ParseLine(run.rest[j]) = n

\* a data handler of the connection awaits the handler of request n
Awaited(c, n) == \E run \in runs : run.conn = c /\ run.n = n

\* request n of connection c went through JSON.parse
Parsed(c, n) == sent[c][n] \in Requests /\ ~Incomplete(c, n) /\ ~Ahead(c, n)

\* C3: for every request line the server parsed (a ping, an action run by
\* the registered handler, an action with no handler registered, an action
\* refused as invalid), the server writes exactly one response on that
\* connection, once its handler returned, and none before; the response
\* carries the id of the request; a response that answers no request line
\* is the parse-error response with the sentinel id.
C3_OneResponseSameId ==
    \A c \in Conns :
        /\ \A n \in 1..Len(sent[c]) :
            /\ \A j \in AnswersTo(c, n) : out[c][j].id = sent[c][n].id
            /\ Cardinality(AnswersTo(c, n)) <= 1
            /\ (Parsed(c, n) /\ ~Awaited(c, n)) => Cardinality(AnswersTo(c, n)) = 1
            /\ ~Parsed(c, n) => AnswersTo(c, n) = {}
        /\ \A j \in 1..Len(out[c]) :
            out[c][j].req \in 1..Len(sent[c]) \/ out[c][j] = ParseErrorResponse

\* on one connection an action was run by the registered handler and
\* answered, and a request refused as invalid was answered
C3_Witness ==
    \E c \in Conns : \E m, n \in 1..Len(sent[c]) :
        /\ sent[c][m] \in {ActionMsg(id) : id \in Ids}
        /\ sent[c][n] \in {BadActionMsg(id) : id \in Ids}
        /\ messageHandler
        /\ \E j \in AnswersTo(c, m) : out[c][j].error # "No message handler registered"
        /\ \E j \in AnswersTo(c, n) : out[c][j].error = "Invalid message format"

\* C4: provided no request was registered under an id that was still
\* pending, every promise of sendAction and ping is settled by the response
\* carrying its id, by its own timer or by the close of the socket: once
\* the timer of a request has expired, or the socket has closed, the
\* request is no longer pending.
C4_SettledByTimerOrClose ==
    ~collided =>
        \A r \in 1..Len(requests) :
            (requests[r].timer = "fired" \/ socket = "closed")
                => requests[r].state # "pending"

\* C18: no head-of-line blocking on one connection: while the handler of
\* an action of a connection is still executing, every later request the
\* server has received on that connection, in the same chunk or in a later
\* one, is answered or, being an action, executing itself.
C18_NoHeadOfLine ==
    \A c \in Conns : \A m, n \in 1..Len(sent[c]) :
        (/\ m < n
         /\ Awaited(c, m)
         /\ sent[c][n] \in Requests
         /\ ~Incomplete(c, n))
        => (AnswersTo(c, n) # {} \/ Awaited(c, n))

\* the action requests, valid or not
ActionRequests == {ActionMsg(id) : id \in Ids} \cup {BadActionMsg(id) : id \in Ids}

\* request n of connection c was logged to actions.jsonl
Logged(c, n) == \E j \in 1..Len(actionsLog) : actionsLog[j].conn = c /\ actionsLog[j].n = n

\* C19: an action request parsed while no handler is registered is
\* answered at once with ok:false, its own id and the error naming the
\* missing handler; it is not left waiting, and a request so answered is
\* never executed later, also after a handler was registered.
C19_NoHandlerAnswered ==
    \A c \in Conns :
        /\ ~messageHandler =>
             \A n \in 1..Len(sent[c]) :
                 (sent[c][n] \in ActionRequests /\ Parsed(c, n)) =>
                     /\ ~Awaited(c, n)
                     /\ \E j \in 1..Len(out[c]) :
                          /\ AnswersTo(c, n) = {j}
                          /\ out[c][j].id = sent[c][n].id
                          /\ ~out[c][j].ok
                          /\ out[c][j].error = "No message handler registered"
        /\ \A j \in 1..Len(out[c]) :
             out[c][j].error = "No message handler registered" =>
                 /\ out[c][j].req \in 1..Len(sent[c])
                 /\ out[c][j].id = sent[c][out[c][j].req].id
                 /\ ~out[c][j].ok
                 /\ AnswersTo(c, out[c][j].req) = {j}
                 /\ ~Awaited(c, out[c][j].req)
                 /\ ~Logged(c, out[c][j].req)

\* an action was refused for the missing handler, the handler was then
\* registered and a later action was executed and logged
C19_Witness ==
    /\ messageHandler
    /\ actionsLog # << >>
    /\ \E c \in Conns : \E j \in 1..Len(out[c]) :
         /\ out[c][j].error = "No message handler registered"
         /\ sent[c][out[c][j].req] \in {ActionMsg(id) : id \in Ids}

\* a data handler of the connection has line n ahead in its loop, whatever
\* the line holds
Held(c, n) ==
    \E run \in runs : run.conn = c /\
        \E j \in 1..Len(run.rest) : \E x \in 1..Len(run.rest[j]) : run.rest[j][x].n = n

\* the lines of connection c that JSON.parse refused so far
Refused(c) ==
    {n \in 1..Len(sent[c]) : sent[c][n] = JunkLine /\ ~Incomplete(c, n) /\ ~Held(c, n)}

\* C20: each line that fails to parse is answered with exactly one
\* response {id: "unknown", ok: false, error}, and on a connection that
\* received such a line every request line, earlier or later, is still
\* answered once, with its own id, when its handler has returned.
C20_ParseErrorIsolated ==
    \A c \in Conns :
        /\ Cardinality({j \in 1..Len(out[c]) : out[c][j] = ParseErrorResponse})
             = Cardinality(Refused(c))
        /\ Refused(c) # {} =>
             \A n \in 1..Len(sent[c]) :
                 (sent[c][n] \in Requests /\ Parsed(c, n) /\ ~Awaited(c, n)) =>
                     \E j \in 1..Len(out[c]) :
                         /\ AnswersTo(c, n) = {j}
                         /\ out[c][j].id = sent[c][n].id
                         /\ out[c][j] # ParseErrorResponse

\* a connection sent text that is no JSON and then a ping: the first was
\* answered with the sentinel id, the second with its pong
C20_Witness ==
    \E c \in Conns :
        /\ Len(sent[c]) = 2
        /\ sent[c][1] = JunkLine
        /\ sent[c][2] \in {PingMsg(id) : id \in Ids}
        /\ out[c] = <<ParseErrorResponse, PingResponse(sent[c][2], 2)>>

\* line n of connection c and its newline have reached the server
Delivered(c, n) ==
    /\ n \in 1..Len(sent[c])
    /\ n <= Len(sent[c]) - Cardinality({j \in 1..Len(wire[c]) : wire[c][j].ch = "nl"})

\* C28: an action in flight on one connection never delays another
\* connection: while a handler of connection a awaits its action, every
\* request that has reached the server on another connection b, and is not
\* behind an action of b itself, is answered or, being an action,
\* executing.
C28_OtherConnectionNotDelayed ==
    \A a, b \in Conns :
        (a # b /\ \E run \in runs : run.conn = a) =>
            \A n \in 1..Len(sent[b]) :
                (sent[b][n] \in Requests /\ Delivered(b, n) /\ ~Held(b, n)) =>
                    \/ Awaited(b, n)
                    \/ \E j \in 1..Len(out[b]) :
                         AnswersTo(b, n) = {j} /\ out[b][j].id = sent[b][n].id

\* actions of two connections are executing at once: the second was
\* dispatched while the first was in flight
C28_Witness ==
    \E r1, r2 \in runs :
        /\ r1.conn # r2.conn
        /\ r1.pc = "executing"
        /\ r2.pc = "executing"

\* line n of connection c went through the loop body of a data handler
Processed(c, n) == Delivered(c, n) /\ ~Held(c, n)

\* C29: framing is independent of chunking: however the stream is split
\* into chunks, the receiver processes the newline-terminated non-blank
\* lines in stream order, each once: a line is not processed before its
\* newline arrived, a request is answered at most once, and when a line
\* has been processed every non-blank line before it in the stream has
\* been processed too.
C29_FramingInStreamOrder ==
    \A c \in Conns :
        /\ \A n \in 1..Len(sent[c]) :
             /\ ~Delivered(c, n) => (AnswersTo(c, n) = {} /\ ~Awaited(c, n) /\ ~Held(c, n))
             /\ Cardinality(AnswersTo(c, n)) <= 1
        /\ \A m, n \in 1..Len(sent[c]) :
             (/\ m < n
              /\ sent[c][m] # BlankLine
              /\ sent[c][n] # BlankLine
              /\ Processed(c, n))
             => Processed(c, m)

(***************************************************************************)
(* C21: a finished `rce action` command printed "Recorder not running"     *)
(* exactly when its connect attempt found the endpoint absent or refusing; *)
(* a request timeout, a closed connection or another connect error printed *)
(* the generic connection error, and a connect attempt that found no       *)
(* endpoint never printed a generic error.                                 *)
(***************************************************************************)
GenericErrors == {"Error connecting to recorder", "Error executing action"}

C21_NotRunningExactly ==
    \A n \in 1..Len(reports) :
        LET r == reports[n]
        IN  /\ (r.printed = "Recorder not running")
                <=> (r.cause = "connect" /\ r.endpoint \in {"absent", "stale"})
            /\ (r.cause \in {"timeout"} \cup CloseCauses
                    \/ (r.cause = "connect" /\ r.endpoint = "forbidden"))
                => (r.printed = "Error connecting to recorder" /\ r.exit = 1)
            /\ (r.cause = "connect" /\ r.endpoint = "absent") => r.printed \notin GenericErrors

\* a refused connect was reported as not running and a timeout as generic
C21_Witness ==
    \E m, n \in 1..Len(reports) :
        /\ reports[m].cause = "connect"
        /\ reports[m].endpoint = "stale"
        /\ reports[m].printed = "Recorder not running"
        /\ reports[n].cause = "timeout"
        /\ reports[n].printed = "Error connecting to recorder"

(***************************************************************************)
(* C22: a readJsonLines call never fails and returns exactly the values of *)
(* the well-formed lines of the file, in file order; a missing file reads  *)
(* as the empty sequence.                                                  *)
(***************************************************************************)
\* the well-formed records of a file, in file order
WellFormedRecords(file) ==
    LET lines == Lines(ReadFile(file))
        good == SelectSeq(lines, LAMBDA l : JsonParse(l).ok)
    IN  [n \in 1..Len(good) |-> JsonParse(good[n]).value]

C22_ReadIsTolerant ==
    read # NoRead =>
        /\ ~read.result.failed
        /\ read.result.records = WellFormedRecords(read.file)
        /\ ~read.file.exists => read.result.records = << >>

(***************************************************************************)
(* C24: however many signals the recorder process handles, the body of     *)
(* cleanup (IPC stop, browser close, dev-server kill, exit) runs at most   *)
(* once, and an invocation that finds cleanup in progress changes nothing. *)
(***************************************************************************)
\* the event loop runs cleanup while an earlier cleanup is in progress
ReentrantStep == main.isCleaningUp /\ main'.handled = main.handled + 1

C24_CleanupAtMostOnce ==
    /\ [](/\ main.bodyRuns <= 1
          /\ main.ipcStops <= 1
          /\ main.browserCloses <= 1
          /\ main.serverKills <= 1
          /\ main.exits <= 1)
    /\ [][ReentrantStep =>
            /\ main' = [main EXCEPT !.pending = Tail(@), !.handled = @ + 1]
            /\ UNCHANGED <<files, children>>]_vars

\* two signals were handled while the one cleanup awaited the IPC stop
C24_Witness ==
    /\ main.handled >= 2
    /\ main.bodyRuns = 1
    /\ main.pc \in {"stopFn", "unlink"}

(***************************************************************************)
(* C25: a restart that is over has performed stop, the settle wait and     *)
(* start, in this order, also when its stop found no active session.       *)
(***************************************************************************)
C25_RestartAlwaysStarts ==
    restart.pc \in {"dev", "exited"} => restart.steps = <<"stop", "wait", "start">>

(***************************************************************************)
(* C26: when cmdStop has returned, the recorder no longer listens on the   *)
(* control channel and control.sock does not exist.                        *)
(***************************************************************************)
C26_StoppedMeansNoEndpoint ==
    stop.pc = "returned" => (~main.listening /\ ControlSock \notin files)

(***************************************************************************)
(* C27: no step of cmdStop and no step of the cleanup handler changes the  *)
(* event log, a frame index or the current pointer; cmdStop removes pid    *)
(* files only, cleanup removes the control socket only, and a --ts lookup  *)
(* resolves the same before and after the step.                            *)
(***************************************************************************)
\* what `rce shot --ts T` resolves with the files fs of the project
LookupTs(fs, T) ==
    IF CurrentSym \notin fs THEN ShotError("No active run")
    ELSE CmdShotResult([mode |-> "ts", index |-> -1, ts |-> T, at |-> << >>, tab |-> NoTab],
                       IF "events.rrweb.jsonl" \in fs THEN eventsLog ELSE << >>,
                       IF "frames.jsonl" \in fs THEN framesJsonl ELSE << >>)

\* a step of cmdStop
StopStep == stop' # stop

\* a step of the recorder process that begins or continues its cleanup
CleanupStep ==
    /\ stop' = stop
    /\ main' # main
    /\ main.isCleaningUp \/ main'.isCleaningUp

C27_DataSurvivesStop ==
    [][(StopStep \/ CleanupStep) =>
        /\ UNCHANGED <<eventsLog, framesTxt, framesJsonl, tabFrames>>
        /\ (files \ files') \cap (DataFiles \cup {CurrentSym}) = {}
        /\ StopStep => (files \ files') \subseteq PidFiles
        /\ CleanupStep => (files \ files') \subseteq {ControlSock}
        /\ \A T \in Targets : LookupTs(files', T) = LookupTs(files, T)]_vars

\* a recording run was stopped: cleanup ran to its exit, cmdStop removed
\* the pid files, the log and the indexes are in place
C27_Witness ==
    /\ stop.pc = "returned"
    /\ main.state = "exited"
    /\ main.bodyRuns = 1
    /\ Len(eventsLog) > 0
    /\ files \cap PidFiles = {}
    /\ DataFiles \cup {CurrentSym} \subseteq files

(***************************************************************************)
(* C31: whenever no emit callback is in progress, the index file of each   *)
(* tab holds exactly the entries of frames.jsonl with that tabId, in the   *)
(* same order.                                                             *)
(***************************************************************************)
C31_TabIndexIsFilterOfGlobal ==
    Quiescent => \A t \in Tabs : tabFrames[t] = FilterTab(framesJsonl, t)

(***************************************************************************)
(* C32: the entries of the frame index of one tab are strictly increasing  *)
(* in (ts, k), compared lexicographically, and strictly increasing in i.   *)
(***************************************************************************)
\* (ts, k) of entry e comes before (ts, k) of entry f
KeyBefore(e, f) == e.ts < f.ts \/ (e.ts = f.ts /\ e.k < f.k)

C32_TabIndexStrictlyIncreasing ==
    \A t \in Tabs : \A m, n \in 1..Len(tabFrames[t]) :
        m < n => (KeyBefore(tabFrames[t][m], tabFrames[t][n])
                    /\ tabFrames[t][m].i < tabFrames[t][n].i)

(***************************************************************************)
(* C33: the k of every entry of frames.jsonl is the number of entries      *)
(* before it with the same ts, and the first entry after a change of ts    *)
(* has k = 0.                                                              *)
(***************************************************************************)
C33_OrdinalCountsAndResets ==
    \A n \in 1..Len(framesJsonl) :
        /\ framesJsonl[n].k =
             Cardinality({m \in 1..(n - 1) : framesJsonl[m].ts = framesJsonl[n].ts})
        /\ (n > 1 /\ framesJsonl[n - 1].ts # framesJsonl[n].ts) => framesJsonl[n].k = 0

(***************************************************************************)
(* C34: the events a resolved lookup hands to the replay are exactly the   *)
(* events of the frame's tab whose absolute index (the position of their   *)
(* line in the log) is at most the resolved index, in log order.           *)
(***************************************************************************)
\* the events of tab t at the lines 0..i of the log
TabEventsUpTo(t, i) ==
    EventsOf(FilterTab(SubSeq(eventsLog, 1, IF i + 1 > Len(eventsLog) THEN Len(eventsLog)
                                            ELSE i + 1), t))

\* the lookup resolved to a frame of the index: its i and its tab
ResolvedToFrame ==
    /\ shot.res.ok
    /\ \E n \in 1..Len(framesJsonl) :
         framesJsonl[n].i = shot.res.targetIndex /\ framesJsonl[n].tabId = shot.res.tabId

C34_SubsetIsTabPrefixByAbsIndex ==
    ResolvedToFrame =>
        shot.res.subset = TabEventsUpTo(shot.res.tabId, shot.res.targetIndex)

(***************************************************************************)
(* C35: without a tab filter, a --ts lookup over the global index returns  *)
(* an entry with the largest ts <= target among all entries, and finds     *)
(* nothing only when no entry has ts <= target.                            *)
(***************************************************************************)
C35_GlobalLookupFindsLargest ==
    (shot.flags.mode = "ts" /\ shot.flags.tab = NoTab /\ Len(eventsLog) > 0) =>
        LET hits == {n \in 1..Len(framesJsonl) : framesJsonl[n].ts <= shot.flags.ts}
        IN  /\ hits = {} <=> ~shot.res.ok
            /\ shot.res.ok =>
                 /\ shot.res.pos \in hits
                 /\ \A n \in hits : framesJsonl[n].ts <= framesJsonl[shot.res.pos].ts

(***************************************************************************)
(* C38: a request is never registered under the id of a request that is    *)
(* still pending, so the ids of the requests in flight are distinct.       *)
(***************************************************************************)
C38_InFlightIdsDistinct ==
    /\ ~collided
    /\ \A r, s \in 1..Len(requests) :
         (r # s /\ requests[r].state = "pending" /\ requests[s].state = "pending")
            => requests[r].id # requests[s].id

(***************************************************************************)
(* C40: a callback whose write to the event log failed has written no      *)
(* frame entry, and once no callback is in progress the absolute-index     *)
(* counter is the index of the last line of the log, so that the next      *)
(* event gets the index of its own line.                                   *)
(***************************************************************************)
\* no callback is in progress: each has finished or was ended by a failure
AllEnded == \A c \in 1..Len(calls) : calls[c].pc \in {"done", "ev_failed", "ix_failed"}

C40_FailedAppendLeavesCounters ==
    /\ \A c \in 1..Len(calls) :
         calls[c].pc = "ev_failed" =>
            /\ calls[c].entry = NoEntry
            /\ \A n \in 1..Len(eventsLog) : eventsLog[n].event.data # calls[c].evt.data
    /\ AllEnded => absIndex + 1 = Len(eventsLog)

(***************************************************************************)
(* C37, as stated: every step that ends a dispatched action appends its    *)
(* result to the action log.                                               *)
(***************************************************************************)
\* the entry of actions.jsonl for the action of a run
EntryOf(run) == [conn |-> run.conn, n |-> run.n, ok |-> run.ok]

\* the handler of the run returns in this step
Completes(run) == run.pc = "logging" /\ run \notin runs'

Written(c) == out[c] \o lost[c]

C39_StopDrainsInFlight ==
    \A c \in Conns :
        conn[c] = "destroyed" => (lost[c] = << >> /\ \A run \in runs : run.conn # c)

(***************************************************************************)
(* C36: when cmdDev found a current marker, the files of its new run are   *)
(* created and current is repointed only after its cmdStop has returned    *)
(* and the wait for the port has ended; the recorder of the previous run   *)
(* is then no longer alive, and once the new run is marked, current names  *)
(* the new run, and it names the previous run until then.                  *)
(***************************************************************************)
C36_StopCompletesBeforeNewRun ==
    /\ (dev.pc \in {"created", "marked"} /\ dev.found) =>
         /\ stop.by = "dev"
         /\ stop.pc = "returned"
         /\ files \cap PidFiles = {}
    /\ dev.pc \in {"created", "marked"} => ~Alive(main)
    /\ dev.current = "new" <=> dev.pc = "marked"

\* a run that had recorded was stopped by the start of a new run, which
\* waited for the port and then marked itself current
C36_Witness ==
    /\ dev.pc = "marked"
    /\ dev.found
    /\ dev.attempts > 0
    /\ main.state = "killed"
    /\ Len(eventsLog) > 0

====
